---- MODULE Spec2Model ----
(***************************************************************************)
(* Model of the IFC file handle cache of the python service                *)
(* (ifc_intelligence/cache_manager.py, class IfcCacheManager).             *)
(*                                                                         *)
(* Spec      the cache used by one caller: every operation is one step.    *)
(* SpecConc  the same code run by two callers with no lock: every          *)
(*           statement of get_or_load / remove / clear is one step.        *)
(***************************************************************************)
EXTENDS Integers, Sequences, FiniteSets, TLC

(* ---------------------------------------------------------------------- *)
(* Bounds                                                                  *)
(* ---------------------------------------------------------------------- *)
MaxCap == 2          \* largest max_size a cache is constructed with
MaxTtlHours == 1     \* largest ttl_hours a cache is constructed with
MaxTicks == 2        \* how often the clock advances
MaxCalls == 4        \* how many cache operations one behaviour makes
MaxConcCalls == 3    \* SpecConc: how many cache operations are started
MaxExtractorCalls == 2  \* how many extractor calls one behaviour makes
MaxNameLen == 2       \* how many pieces a property-set name has

(* ---------------------------------------------------------------------- *)
(* Program constants                                                       *)
(* ---------------------------------------------------------------------- *)
SecondsPerHour == 3600
DefaultMaxSize == 10      \* get_global_cache: default of max_size
DefaultTtlHours == 24     \* get_global_cache: default of ttl_hours
max_elements == 100
BytesPerMB == 1024 * 1024

(* The clock advances by half an hour per tick, so that an entry is still  *)
(* fresh after one tick and is expired after 2 * ttl_hours ticks.          *)
TickSeconds == SecondsPerHour \div 2

(* Paths 1 .. MaxCap+1 name valid IFC files, path MaxCap+2 names a file    *)
(* that exists but is not parseable. The file at VolatilePath may be       *)
(* deleted from disk while the program runs; the paths being               *)
(* interchangeable, which one it is makes no difference.                   *)
GoodPaths == 1 .. (MaxCap + 1)
BadPath == MaxCap + 2
Paths == GoodPaths \cup {BadPath}
ConcPaths == {p \in Paths : p <= 2} \cup {BadPath}
VolatilePath == CHOOSE p \in GoodPaths : \A q \in GoodPaths : p <= q

(* os.path.getsize: the files have different sizes, in bytes.              *)
getsize(p) == ((MaxCap + 3 - p) * BytesPerMB) \div 4

None == 0

VARIABLES
    max_size,        \* self.max_size
    ttl_seconds,     \* self.ttl_seconds
    _cache,          \* self._cache: OrderedDict, a sequence of [key, value]
    _access_times,   \* self._access_times: dict path -> time
    _file_sizes,     \* self._file_sizes: dict path -> bytes
    _hits,           \* self._hits
    _misses,         \* self._misses
    _evictions,      \* self._evictions
    clock,           \* what time.time() returns
    fs,              \* the file system: path -> "ok" | "corrupt" | "missing"
    opened,          \* number of handles ifcopenshell.open has returned
    calls,           \* number of cache operations called so far
    last,            \* the last call: what it raised, returned and logged
    run,             \* the get_or_load calls that returned a handle since
                     \* the last call that did anything else
    pc,              \* SpecConc: the statement each caller is at
    loc,             \* SpecConc: the local variables of each caller
    overlapped,      \* SpecConc: a caller ran while another was inside a call
    ifc,             \* what the IFC file on disk holds, once parsed
    self_ifc_file,   \* self.ifc_file of each extractor
    outcome,         \* the last extractor or script call: what it raised,
                     \* returned and printed
    _global_cache,   \* cache_manager._global_cache: None, or the instance
    self_cache,      \* self.cache of each component constructed so far
    subprocess,      \* the IfcConvert process subprocess.run waits for
    disk             \* the output files that exist

cacheVars == <<_cache, _access_times, _file_sizes>>
counterVars == <<_hits, _misses, _evictions>>
configVars == <<max_size, ttl_seconds>>
concVars == <<pc, loc, overlapped>>
extractorVars == <<ifc, self_ifc_file, outcome>>
serviceVars == <<_global_cache, self_cache, subprocess, disk>>
vars == <<max_size, ttl_seconds, _cache, _access_times, _file_sizes,
          _hits, _misses, _evictions, clock, fs, opened, calls, last, run,
          pc, loc, overlapped, ifc, self_ifc_file, outcome,
          _global_cache, self_cache, subprocess, disk>>

(* ---------------------------------------------------------------------- *)
(* Python containers                                                       *)
(* ---------------------------------------------------------------------- *)
\* list(od.keys())
OD_keys(od) == [i \in 1 .. Len(od) |-> od[i].key]

\* set of the keys
OD_keyset(od) == {od[i].key : i \in 1 .. Len(od)}

\* k in od
OD_has(od, k) == k \in OD_keyset(od)

\* od[k], for a key that is present
OD_get(od, k) == od[CHOOSE i \in 1 .. Len(od) : od[i].key = k].value

\* the entries of od other than k, in order
OD_without(od, k) == SelectSeq(od, LAMBDA e : e.key # k)

\* del od[k]
OD_del(od, k) == OD_without(od, k)

\* od.move_to_end(k): a mover that leaves the order alone
OD_move_to_end_Noop(od, k) == od

\* od.move_to_end(k)
OD_move_to_end(od, k) ==
    OD_without(od, k) \o SelectSeq(od, LAMBDA e : e.key = k)

\* od[k] = v: a present key keeps its position, a new key goes to the end
OD_set(od, k, v) ==
    IF OD_has(od, k)
    THEN [i \in 1 .. Len(od) |->
             IF od[i].key = k THEN [key |-> k, value |-> v] ELSE od[i]]
    ELSE Append(od, [key |-> k, value |-> v])

\* del d[k]
Dict_del(d, k) == [x \in (DOMAIN d) \ {k} |-> d[x]]

\* d[k] = v
Dict_set(d, k, v) == [x \in (DOMAIN d) \cup {k} |-> IF x = k THEN v ELSE d[x]]

EmptyDict == [x \in {} |-> 0]

\* sum(d.values())
RECURSIVE SumValues(_)
SumValues(d) ==
    IF DOMAIN d = {} THEN 0
    ELSE LET k == CHOOSE x \in DOMAIN d : TRUE
         IN d[k] + SumValues(Dict_del(d, k))

\* round(num / den * 10^2, 0) of Python: to the nearest integer, ties to even
RoundHalfEven(num, den) ==
    LET q == num \div den
        r == num % den
    IN IF 2 * r < den THEN q
       ELSE IF 2 * r > den THEN q + 1
       ELSE IF q % 2 = 0 THEN q ELSE q + 1

(* ---------------------------------------------------------------------- *)
(* IfcCacheManager                                                         *)
(* ---------------------------------------------------------------------- *)
Threads == {1, 2}

NoLocals == [op |-> "idle", file_path |-> None, current_time |-> 0,
             ifc_file |-> None, file_size |-> 0, oldest_key |-> None,
             reg |-> 0, raised |-> "None"]

(* ---------------------------------------------------------------------- *)
(* The IFC file and the extractors that read it                            *)
(* ---------------------------------------------------------------------- *)
\* SPATIAL_ELEMENT_TYPES without IfcSpace
SPATIAL_ELEMENT_TYPES_NoSpace ==
    {"IfcProject", "IfcSite", "IfcBuilding", "IfcBuildingStorey", "IfcZone"}

\* SPATIAL_ELEMENT_TYPES
SPATIAL_ELEMENT_TYPES ==
    {"IfcProject", "IfcSite", "IfcBuilding", "IfcBuildingStorey",
     "IfcSpace", "IfcZone"}

\* the entities of the file, named by their GlobalId, and what is_a()
\* answers for each
EntityType ==
    [P1 |-> "IfcProject", P2 |-> "IfcProject", S1 |-> "IfcSite",
     B1 |-> "IfcBuilding", ST1 |-> "IfcBuildingStorey", SP1 |-> "IfcSpace",
     W1 |-> "IfcWall", F1 |-> "IfcFurnishingElement"]

Entities == DOMAIN EntityType

\* a GlobalId that no entity of the file has
UnknownGuid == "X0"

\* what a relationship query answers: it raises, or returns entities
Raises == [raises |-> TRUE, items |-> <<>>]
Returns(items) == [raises |-> FALSE, items |-> items]

\* the extractor classes; each instance keeps its handle in self.ifc_file
Extractors ==
    {"SpatialTreeExtractor", "PropertyExtractor", "BulkElementExtractor"}

NoHandles == [x \in Extractors |-> None]

\* one call of an extractor or of a script: the exception it raised and the
\* start of its message, the value it returned, and for a script the
\* documents it printed on standard output and on standard error, its exit
\* code and the warnings it collected
Outcome(op, arg, raised, msg, value) ==
    [op |-> op, arg |-> arg, raised |-> raised, msg |-> msg, value |-> value,
     stdout |-> <<>>, stderr |-> <<>>, exit |-> None, warnings |-> <<>>]

NoOutcome == Outcome("none", None, "None", "", None)

\* the classes that take cache_manager or, without one, the global cache
Components == {"IfcParser", "SpatialTreeExtractor", "BulkElementExtractor"}

NoCaches == [c \in Components |-> None]

\* no subprocess has been started
NoSubprocess ==
    [state |-> "none", command |-> <<>>, returncode |-> None,
     stdout |-> "", stderr |-> ""]

\* types_to_count of _count_entities, before the schema is looked at
types_to_count ==
    <<"IfcWall", "IfcWallStandardCase", "IfcDoor", "IfcWindow", "IfcSlab",
      "IfcBeam", "IfcColumn", "IfcStair", "IfcRoof", "IfcRailing", "IfcSpace",
      "IfcBuildingStorey", "IfcBuilding", "IfcSite", "IfcFurnishingElement",
      "IfcFurniture">>

\* ifc4_specific_types
ifc4_specific_types ==
    <<"IfcPipeFitting", "IfcPipeSegment", "IfcDuctFitting", "IfcDuctSegment">>

\* the members of a list
Range(s) == {s[i] : i \in DOMAIN s}

\* the type names by_type is asked for in the model: the ones the parser
\* counts and one it does not
Tags == Range(types_to_count) \cup Range(ifc4_specific_types)
            \cup {"IfcFlowTerminal"}

\* a file without entities; schema is ifc_file.schema in pieces,
\* instances[t] is len(by_type(t)) and unknown holds the names by_type
\* raises RuntimeError for
EmptyIfc ==
    [schema |-> <<"IFC", "4">>,
     instances |-> [t \in Tags |-> 0],
     unknown |-> {},
     projects |-> <<>>,
     decomposition |-> [e \in Entities |-> Returns(<<>>)],
     contained |-> [e \in Entities |-> Returns(<<>>)],
     broken |-> {},
     psets |-> <<>>,
     throwing |-> {},
     throws |-> "RuntimeError"]

\* one call: what it raised, what it returned and
\* the events it passed to _log_cache_event
Event(op, path, raised, ret, log) ==
    [op |-> op, path |-> path, raised |-> raised, ret |-> ret, log |-> log,
     at |-> clock]

LogEv(event, path) == [event |-> event, path |-> path]

\* __init__(max_size, ttl_hours)
Init ==
    /\ max_size \in 1 .. MaxCap
    /\ ttl_seconds \in {h * SecondsPerHour : h \in 1 .. MaxTtlHours}
    /\ _cache = <<>>
    /\ _access_times = EmptyDict
    /\ _file_sizes = EmptyDict
    /\ _hits = 0
    /\ _misses = 0
    /\ _evictions = 0
    /\ clock = 0
    /\ fs = [p \in Paths |-> IF p = BadPath THEN "corrupt" ELSE "ok"]
    /\ opened = 0
    /\ calls = 0
    /\ last = Event("__init__", None, "None", None, <<>>)
    /\ run = <<>>
    /\ pc = [t \in Threads |-> "idle"]
    /\ loc = [t \in Threads |-> NoLocals]
    /\ overlapped = FALSE
    /\ ifc = EmptyIfc
    /\ self_ifc_file = NoHandles
    /\ outcome = NoOutcome
    /\ _global_cache = None
    /\ self_cache = NoCaches
    /\ subprocess = NoSubprocess
    /\ disk = {}

\* the TTL test with the boundary on the wrong side
IsFresh_Inclusive(current_time, last_access, ttl) ==
    current_time - last_access <= ttl

\* the TTL compared with a time in hours
IsFresh_Hours(current_time, last_access, ttl) ==
    current_time - last_access < ttl \div SecondsPerHour

\* current_time - self._access_times[file_path] < self.ttl_seconds
IsFresh(current_time, last_access, ttl) ==
    current_time - last_access < ttl

\* the capacity test letting one entry too many in
CacheFull_OffByOne(od, n) == Len(od) > n

\* len(self._cache) >= self.max_size
CacheFull(od, n) == Len(od) >= n

\* a victim chosen at the wrong end of the order
OldestKey_Newest(od) == od[Len(od)].key

\* a victim chosen by size
OldestKey_Largest(od) ==
    CHOOSE k \in OD_keyset(od) : \A j \in OD_keyset(od) : getsize(k) >= getsize(j)

\* next(iter(self._cache))
OldestKey(od) == od[1].key

\* an existence test that is skipped
exists_Skipped(p) == TRUE

\* os.path.exists(file_path)
exists(p) == fs[p] # "missing"

\* ifcopenshell.open(file_path) returns a handle
parses(p) == fs[p] = "ok"

\* get_or_load(file_path)
get_or_load(file_path) ==
    /\ calls < MaxCalls
    /\ calls' = calls + 1
    /\ UNCHANGED <<configVars, serviceVars, clock, fs, concVars>>
    /\ LET current_time == clock
           present == OD_has(_cache, file_path)
       IN
       IF present /\ IsFresh(current_time, _access_times[file_path], ttl_seconds)
       THEN \* cache hit
            /\ _cache' = OD_move_to_end(_cache, file_path)
            /\ _access_times' = Dict_set(_access_times, file_path, current_time)
            /\ _hits' = _hits + 1
            /\ UNCHANGED <<_file_sizes, _misses, _evictions, opened>>
            /\ last' = Event("get_or_load", file_path, "None",
                                OD_get(_cache', file_path),
                                <<LogEv("HIT", file_path)>>)
            /\ run' = Append(run, [path |-> file_path, event |-> "HIT",
                                   evicted |-> {}])
       ELSE \* expired entries are dropped, then the file is loaded
            LET c1 == IF present THEN OD_del(_cache, file_path) ELSE _cache
                a1 == IF present THEN Dict_del(_access_times, file_path)
                                 ELSE _access_times
                s1 == IF present THEN Dict_del(_file_sizes, file_path)
                                 ELSE _file_sizes
                log1 == (IF present THEN <<LogEv("EXPIRED", file_path)>>
                                    ELSE <<>>)
                        \o <<LogEv("MISS", file_path)>>
            IN
            /\ _misses' = _misses + 1
            /\ _hits' = _hits
            /\ IF ~exists(file_path)
               THEN /\ _cache' = c1
                    /\ _access_times' = a1
                    /\ _file_sizes' = s1
                    /\ UNCHANGED <<_evictions, opened>>
                    /\ last' = Event("get_or_load", file_path,
                                        "FileNotFoundError", None, log1)
                    /\ run' = <<>>
               ELSE IF ~parses(file_path)
               THEN /\ _cache' = c1
                    /\ _access_times' = a1
                    /\ _file_sizes' = s1
                    /\ UNCHANGED <<_evictions, opened>>
                    /\ last' = Event("get_or_load", file_path,
                                        "RuntimeError", None, log1)
                    /\ run' = <<>>
               ELSE LET ifc_file == opened + 1
                        file_size == getsize(file_path)
                        full == CacheFull(c1, max_size)
                        oldest_key == OldestKey(c1)
                        c2 == IF full THEN OD_del(c1, oldest_key) ELSE c1
                        a2 == IF full THEN Dict_del(a1, oldest_key) ELSE a1
                        s2 == IF full THEN Dict_del(s1, oldest_key) ELSE s1
                        log2 == log1
                                \o (IF full THEN <<LogEv("EVICT", oldest_key)>>
                                            ELSE <<>>)
                                \o <<LogEv("LOAD", file_path)>>
                    IN /\ opened' = ifc_file
                       /\ _evictions' = IF full THEN _evictions + 1
                                                ELSE _evictions
                       /\ _cache' = OD_set(c2, file_path, ifc_file)
                       /\ _access_times' = Dict_set(a2, file_path, current_time)
                       /\ _file_sizes' = Dict_set(s2, file_path, file_size)
                       /\ last' = Event("get_or_load", file_path, "None",
                                           ifc_file, log2)
                       /\ run' = Append(run, [path |-> file_path,
                              event |-> "LOAD",
                              evicted |-> IF full THEN {oldest_key}
                                                  ELSE {}])

\* a clear that also starts the statistics again
clear_ResetsCounters ==
    /\ calls < MaxCalls
    /\ _cache' = <<>>
    /\ _access_times' = EmptyDict
    /\ _file_sizes' = EmptyDict
    /\ _hits' = 0
    /\ _misses' = 0
    /\ _evictions' = 0
    /\ calls' = calls + 1
    /\ last' = Event("clear", None, "None", None, <<LogEv("CLEAR", None)>>)
    /\ run' = <<>>
    /\ UNCHANGED <<extractorVars, configVars, serviceVars, clock, fs, opened, concVars>>

\* clear()
clear ==
    /\ calls < MaxCalls
    /\ _cache' = <<>>
    /\ _access_times' = EmptyDict
    /\ _file_sizes' = EmptyDict
    /\ calls' = calls + 1
    /\ last' = Event("clear", None, "None", None, <<LogEv("CLEAR", None)>>)
    /\ run' = <<>>
    /\ UNCHANGED <<extractorVars, configVars, serviceVars, counterVars, clock, fs, opened, concVars>>

\* a remove that deletes without looking
remove_Unguarded(file_path) ==
    /\ calls < MaxCalls
    /\ IF OD_has(_cache, file_path)
       THEN /\ _cache' = OD_del(_cache, file_path)
            /\ _access_times' = Dict_del(_access_times, file_path)
            /\ _file_sizes' = Dict_del(_file_sizes, file_path)
            /\ last' = Event("remove", file_path, "None", None,
                             <<LogEv("REMOVE", file_path)>>)
       ELSE /\ UNCHANGED cacheVars
            /\ last' = Event("remove", file_path, "KeyError", None, <<>>)
    /\ calls' = calls + 1
    /\ run' = <<>>
    /\ UNCHANGED <<extractorVars, configVars, serviceVars, counterVars, clock, fs, opened, concVars>>

\* remove(file_path)
remove(file_path) ==
    /\ calls < MaxCalls
    /\ IF OD_has(_cache, file_path)
       THEN /\ _cache' = OD_del(_cache, file_path)
            /\ _access_times' = Dict_del(_access_times, file_path)
            /\ _file_sizes' = Dict_del(_file_sizes, file_path)
            /\ last' = Event("remove", file_path, "None", None,
                             <<LogEv("REMOVE", file_path)>>)
       ELSE /\ UNCHANGED cacheVars
            /\ last' = Event("remove", file_path, "None", None, <<>>)
    /\ calls' = calls + 1
    /\ run' = <<>>
    /\ UNCHANGED <<extractorVars, configVars, serviceVars, counterVars, clock, fs, opened, concVars>>

\* the dictionary get_stats builds; hit_rate and total_size_mb are kept in
\* hundredths, as round(x, 2) leaves them
Stats ==
    LET total_requests == _hits + _misses
        total_size_bytes == SumValues(_file_sizes)
    IN [size |-> Len(_cache),
        max_size |-> max_size,
        hits |-> _hits,
        misses |-> _misses,
        evictions |-> _evictions,
        hit_rate |-> IF total_requests > 0
                     THEN RoundHalfEven(_hits * 100 * 100, total_requests)
                     ELSE 0,
        total_requests |-> total_requests,
        cached_files |-> OD_keys(_cache),
        total_size_mb |-> RoundHalfEven(total_size_bytes * 100, BytesPerMB),
        ttl_hours |-> ttl_seconds \div SecondsPerHour]

\* a get_stats that first drops the entries whose TTL has elapsed
get_stats_Sweep ==
    /\ calls < MaxCalls
    /\ LET keep(e) == IsFresh(clock, _access_times[e.key], ttl_seconds)
           kept == {p \in DOMAIN _access_times :
                       IsFresh(clock, _access_times[p], ttl_seconds)}
       IN /\ _cache' = SelectSeq(_cache, keep)
          /\ _access_times' = [p \in kept |-> _access_times[p]]
          /\ _file_sizes' = [p \in kept |-> _file_sizes[p]]
    /\ calls' = calls + 1
    /\ last' = Event("get_stats", None, "None",
                     [Stats EXCEPT !.size = Len(_cache'),
                                   !.cached_files = OD_keys(_cache')], <<>>)
    /\ UNCHANGED <<extractorVars, configVars, serviceVars, counterVars, clock, fs, opened, run, concVars>>

\* get_stats()
get_stats ==
    /\ calls < MaxCalls
    /\ calls' = calls + 1
    /\ last' = Event("get_stats", None, "None", Stats, <<>>)
    /\ UNCHANGED <<extractorVars, configVars, serviceVars, cacheVars, counterVars, clock, fs, opened, run,
                   concVars>>

(* ---------------------------------------------------------------------- *)
(* Environment                                                             *)
(* ---------------------------------------------------------------------- *)
\* time passes between two calls of time.time()
Tick ==
    /\ clock < MaxTicks * TickSeconds
    /\ clock' = clock + TickSeconds
    /\ UNCHANGED <<extractorVars, configVars, serviceVars, cacheVars, counterVars, fs, opened, calls,
                   last, run, concVars>>

\* a file is deleted from disk
Unlink ==
    /\ fs[VolatilePath] # "missing"
    /\ fs' = [fs EXCEPT ![VolatilePath] = "missing"]
    /\ UNCHANGED <<extractorVars, configVars, serviceVars, cacheVars, counterVars, clock, opened, calls,
                   last, run, concVars>>

Next ==
    \/ \E p \in Paths : get_or_load(p) /\ UNCHANGED extractorVars
    \/ \E p \in Paths : remove(p)
    \/ clear
    \/ get_stats
    \/ Tick
    \/ Unlink

Spec == Init /\ [][Next]_vars

(* ---------------------------------------------------------------------- *)
(* The same code run by two callers that hold no lock: one statement of    *)
(* cache_manager.py per step, named after its line. An exception ends the  *)
(* call and is kept in loc[t].raised.                                      *)
(* ---------------------------------------------------------------------- *)
Goto(t, l) == pc' = [pc EXCEPT ![t] = l]

\* the call of caller t ends with exception e
Raise(t, e) ==
    /\ pc' = [pc EXCEPT ![t] = "idle"]
    /\ loc' = [loc EXCEPT ![t] = [NoLocals EXCEPT !.raised = e]]

\* the call of caller t returns
Return(t) ==
    /\ pc' = [pc EXCEPT ![t] = "idle"]
    /\ loc' = [loc EXCEPT ![t] = NoLocals]

\* caller t takes a step; another caller may be inside a call
Step(t) ==
    /\ overlapped' = (overlapped \/ \E u \in Threads \ {t} : pc[u] # "idle")
    /\ UNCHANGED <<extractorVars, configVars, serviceVars, clock, fs, last, run>>

\* caller t calls get_or_load(p), remove(p) or clear()
Call(t) ==
    /\ pc[t] = "idle"
    /\ calls < MaxConcCalls
    /\ calls' = calls + 1
    /\ \E op \in {"get_or_load", "remove", "clear"} :
       \E p \in ConcPaths :
          /\ op = "clear" => p = BadPath
          /\ loc' = [loc EXCEPT ![t] =
                        [NoLocals EXCEPT !.op = op,
                                         !.file_path = IF op = "clear"
                                                       THEN None ELSE p]]
          /\ Goto(t, CASE op = "get_or_load" -> "L63"
                       [] op = "remove" -> "L136"
                       [] op = "clear" -> "L123")
    /\ Step(t)
    /\ UNCHANGED <<cacheVars, counterVars, opened>>

L63(t) ==
    /\ pc[t] = "L63"
    /\ loc' = [loc EXCEPT ![t].current_time = clock]
    /\ Goto(t, "L66")
    /\ Step(t)
    /\ UNCHANGED <<cacheVars, counterVars, opened, calls>>

L66(t) ==
    /\ pc[t] = "L66"
    /\ IF OD_has(_cache, loc[t].file_path) THEN Goto(t, "L68")
                                           ELSE Goto(t, "L86")
    /\ Step(t)
    /\ UNCHANGED <<cacheVars, counterVars, opened, calls, loc>>

L68(t) ==
    /\ pc[t] = "L68"
    /\ IF loc[t].file_path \notin DOMAIN _access_times
       THEN Raise(t, "KeyError")
       ELSE /\ IF IsFresh(loc[t].current_time,
                          _access_times[loc[t].file_path], ttl_seconds)
               THEN Goto(t, "L70")
               ELSE Goto(t, "L81")
            /\ UNCHANGED loc
    /\ Step(t)
    /\ UNCHANGED <<cacheVars, counterVars, opened, calls>>

L70(t) ==
    /\ pc[t] = "L70"
    /\ IF ~OD_has(_cache, loc[t].file_path)
       THEN Raise(t, "KeyError") /\ UNCHANGED _cache
       ELSE /\ _cache' = OD_move_to_end(_cache, loc[t].file_path)
            /\ Goto(t, "L71")
            /\ UNCHANGED loc
    /\ Step(t)
    /\ UNCHANGED <<_access_times, _file_sizes, counterVars, opened, calls>>

L71(t) ==
    /\ pc[t] = "L71"
    /\ _access_times' = Dict_set(_access_times, loc[t].file_path,
                                 loc[t].current_time)
    /\ Goto(t, "L72")
    /\ Step(t)
    /\ UNCHANGED <<_cache, _file_sizes, counterVars, opened, calls, loc>>

\* self._hits += 1 reads the counter ...
L72(t) ==
    /\ pc[t] = "L72"
    /\ loc' = [loc EXCEPT ![t].reg = _hits]
    /\ Goto(t, "L72w")
    /\ Step(t)
    /\ UNCHANGED <<cacheVars, counterVars, opened, calls>>

\* ... and then writes it
L72w(t) ==
    /\ pc[t] = "L72w"
    /\ _hits' = loc[t].reg + 1
    /\ Goto(t, "L77")
    /\ Step(t)
    /\ UNCHANGED <<cacheVars, _misses, _evictions, opened, calls, loc>>

L77(t) ==
    /\ pc[t] = "L77"
    /\ IF ~OD_has(_cache, loc[t].file_path)
       THEN Raise(t, "KeyError")
       ELSE Return(t)
    /\ Step(t)
    /\ UNCHANGED <<cacheVars, counterVars, opened, calls>>

L81(t) ==
    /\ pc[t] = "L81"
    /\ IF ~OD_has(_cache, loc[t].file_path)
       THEN Raise(t, "KeyError") /\ UNCHANGED _cache
       ELSE /\ _cache' = OD_del(_cache, loc[t].file_path)
            /\ Goto(t, "L82")
            /\ UNCHANGED loc
    /\ Step(t)
    /\ UNCHANGED <<_access_times, _file_sizes, counterVars, opened, calls>>

L82(t) ==
    /\ pc[t] = "L82"
    /\ IF loc[t].file_path \notin DOMAIN _access_times
       THEN Raise(t, "KeyError") /\ UNCHANGED _access_times
       ELSE /\ _access_times' = Dict_del(_access_times, loc[t].file_path)
            /\ Goto(t, "L83")
            /\ UNCHANGED loc
    /\ Step(t)
    /\ UNCHANGED <<_cache, _file_sizes, counterVars, opened, calls>>

L83(t) ==
    /\ pc[t] = "L83"
    /\ IF loc[t].file_path \notin DOMAIN _file_sizes
       THEN Raise(t, "KeyError") /\ UNCHANGED _file_sizes
       ELSE /\ _file_sizes' = Dict_del(_file_sizes, loc[t].file_path)
            /\ Goto(t, "L86")
            /\ UNCHANGED loc
    /\ Step(t)
    /\ UNCHANGED <<_cache, _access_times, counterVars, opened, calls>>

\* self._misses += 1 reads the counter ...
L86(t) ==
    /\ pc[t] = "L86"
    /\ loc' = [loc EXCEPT ![t].reg = _misses]
    /\ Goto(t, "L86w")
    /\ Step(t)
    /\ UNCHANGED <<cacheVars, counterVars, opened, calls>>

\* ... and then writes it
L86w(t) ==
    /\ pc[t] = "L86w"
    /\ _misses' = loc[t].reg + 1
    /\ Goto(t, "L90")
    /\ Step(t)
    /\ UNCHANGED <<cacheVars, _hits, _evictions, opened, calls, loc>>

L90(t) ==
    /\ pc[t] = "L90"
    /\ IF ~exists(loc[t].file_path)
       THEN Raise(t, "FileNotFoundError")
       ELSE Goto(t, "L95") /\ UNCHANGED loc
    /\ Step(t)
    /\ UNCHANGED <<cacheVars, counterVars, opened, calls>>

L95(t) ==
    /\ pc[t] = "L95"
    /\ IF ~parses(loc[t].file_path)
       THEN Raise(t, "RuntimeError") /\ UNCHANGED opened
       ELSE /\ opened' = opened + 1
            /\ loc' = [loc EXCEPT ![t].ifc_file = opened + 1]
            /\ Goto(t, "L100")
    /\ Step(t)
    /\ UNCHANGED <<cacheVars, counterVars, calls>>

L100(t) ==
    /\ pc[t] = "L100"
    /\ IF ~exists(loc[t].file_path)
       THEN Raise(t, "FileNotFoundError")
       ELSE /\ loc' = [loc EXCEPT ![t].file_size = getsize(loc[t].file_path)]
            /\ Goto(t, "L103")
    /\ Step(t)
    /\ UNCHANGED <<cacheVars, counterVars, opened, calls>>

L103(t) ==
    /\ pc[t] = "L103"
    /\ IF CacheFull(_cache, max_size) THEN Goto(t, "L104")
                                      ELSE Goto(t, "L113")
    /\ Step(t)
    /\ UNCHANGED <<cacheVars, counterVars, opened, calls, loc>>

L104(t) ==
    /\ pc[t] = "L104"
    /\ IF _cache = <<>>
       THEN Raise(t, "StopIteration")
       ELSE /\ loc' = [loc EXCEPT ![t].oldest_key = OldestKey(_cache)]
            /\ Goto(t, "L107")
    /\ Step(t)
    /\ UNCHANGED <<cacheVars, counterVars, opened, calls>>

L107(t) ==
    /\ pc[t] = "L107"
    /\ IF ~OD_has(_cache, loc[t].oldest_key)
       THEN Raise(t, "KeyError") /\ UNCHANGED _cache
       ELSE /\ _cache' = OD_del(_cache, loc[t].oldest_key)
            /\ Goto(t, "L108")
            /\ UNCHANGED loc
    /\ Step(t)
    /\ UNCHANGED <<_access_times, _file_sizes, counterVars, opened, calls>>

L108(t) ==
    /\ pc[t] = "L108"
    /\ IF loc[t].oldest_key \notin DOMAIN _access_times
       THEN Raise(t, "KeyError") /\ UNCHANGED _access_times
       ELSE /\ _access_times' = Dict_del(_access_times, loc[t].oldest_key)
            /\ Goto(t, "L109")
            /\ UNCHANGED loc
    /\ Step(t)
    /\ UNCHANGED <<_cache, _file_sizes, counterVars, opened, calls>>

L109(t) ==
    /\ pc[t] = "L109"
    /\ IF loc[t].oldest_key \notin DOMAIN _file_sizes
       THEN Raise(t, "KeyError") /\ UNCHANGED _file_sizes
       ELSE /\ _file_sizes' = Dict_del(_file_sizes, loc[t].oldest_key)
            /\ Goto(t, "L110")
            /\ UNCHANGED loc
    /\ Step(t)
    /\ UNCHANGED <<_cache, _access_times, counterVars, opened, calls>>

\* self._evictions += 1 reads the counter ...
L110(t) ==
    /\ pc[t] = "L110"
    /\ loc' = [loc EXCEPT ![t].reg = _evictions]
    /\ Goto(t, "L110w")
    /\ Step(t)
    /\ UNCHANGED <<cacheVars, counterVars, opened, calls>>

\* ... and then writes it
L110w(t) ==
    /\ pc[t] = "L110w"
    /\ _evictions' = loc[t].reg + 1
    /\ Goto(t, "L113")
    /\ Step(t)
    /\ UNCHANGED <<cacheVars, _hits, _misses, opened, calls, loc>>

L113(t) ==
    /\ pc[t] = "L113"
    /\ _cache' = OD_set(_cache, loc[t].file_path, loc[t].ifc_file)
    /\ Goto(t, "L114")
    /\ Step(t)
    /\ UNCHANGED <<_access_times, _file_sizes, counterVars, opened, calls, loc>>

L114(t) ==
    /\ pc[t] = "L114"
    /\ _access_times' = Dict_set(_access_times, loc[t].file_path,
                                 loc[t].current_time)
    /\ Goto(t, "L115")
    /\ Step(t)
    /\ UNCHANGED <<_cache, _file_sizes, counterVars, opened, calls, loc>>

\* the last assignment, and the return of line 119
L115(t) ==
    /\ pc[t] = "L115"
    /\ _file_sizes' = Dict_set(_file_sizes, loc[t].file_path, loc[t].file_size)
    /\ Return(t)
    /\ Step(t)
    /\ UNCHANGED <<_cache, _access_times, counterVars, opened, calls>>

L123(t) ==
    /\ pc[t] = "L123"
    /\ _cache' = <<>>
    /\ Goto(t, "L124")
    /\ Step(t)
    /\ UNCHANGED <<_access_times, _file_sizes, counterVars, opened, calls, loc>>

L124(t) ==
    /\ pc[t] = "L124"
    /\ _access_times' = EmptyDict
    /\ Goto(t, "L125")
    /\ Step(t)
    /\ UNCHANGED <<_cache, _file_sizes, counterVars, opened, calls, loc>>

L125(t) ==
    /\ pc[t] = "L125"
    /\ _file_sizes' = EmptyDict
    /\ Return(t)
    /\ Step(t)
    /\ UNCHANGED <<_cache, _access_times, counterVars, opened, calls>>

\* a remove that does not look before it deletes
L136_Unchecked(t) ==
    /\ pc[t] = "L136"
    /\ Goto(t, "L137")
    /\ Step(t)
    /\ UNCHANGED <<cacheVars, counterVars, opened, calls, loc>>

L136(t) ==
    /\ pc[t] = "L136"
    /\ IF OD_has(_cache, loc[t].file_path)
       THEN Goto(t, "L137") /\ UNCHANGED loc
       ELSE Return(t)
    /\ Step(t)
    /\ UNCHANGED <<cacheVars, counterVars, opened, calls>>

L137(t) ==
    /\ pc[t] = "L137"
    /\ IF ~OD_has(_cache, loc[t].file_path)
       THEN Raise(t, "KeyError") /\ UNCHANGED _cache
       ELSE /\ _cache' = OD_del(_cache, loc[t].file_path)
            /\ Goto(t, "L138")
            /\ UNCHANGED loc
    /\ Step(t)
    /\ UNCHANGED <<_access_times, _file_sizes, counterVars, opened, calls>>

L138(t) ==
    /\ pc[t] = "L138"
    /\ IF loc[t].file_path \notin DOMAIN _access_times
       THEN Raise(t, "KeyError") /\ UNCHANGED _access_times
       ELSE /\ _access_times' = Dict_del(_access_times, loc[t].file_path)
            /\ Goto(t, "L139")
            /\ UNCHANGED loc
    /\ Step(t)
    /\ UNCHANGED <<_cache, _file_sizes, counterVars, opened, calls>>

L139(t) ==
    /\ pc[t] = "L139"
    /\ IF loc[t].file_path \notin DOMAIN _file_sizes
       THEN Raise(t, "KeyError") /\ UNCHANGED _file_sizes
       ELSE /\ _file_sizes' = Dict_del(_file_sizes, loc[t].file_path)
            /\ Return(t)
    /\ Step(t)
    /\ UNCHANGED <<_cache, _access_times, counterVars, opened, calls>>

NextConc ==
    \/ \E t \in Threads : Call(t)
    \/ \E t \in Threads : L63(t)
    \/ \E t \in Threads : L66(t)
    \/ \E t \in Threads : L68(t)
    \/ \E t \in Threads : L70(t)
    \/ \E t \in Threads : L71(t)
    \/ \E t \in Threads : L72(t)
    \/ \E t \in Threads : L72w(t)
    \/ \E t \in Threads : L77(t)
    \/ \E t \in Threads : L81(t)
    \/ \E t \in Threads : L82(t)
    \/ \E t \in Threads : L83(t)
    \/ \E t \in Threads : L86(t)
    \/ \E t \in Threads : L86w(t)
    \/ \E t \in Threads : L90(t)
    \/ \E t \in Threads : L95(t)
    \/ \E t \in Threads : L100(t)
    \/ \E t \in Threads : L103(t)
    \/ \E t \in Threads : L104(t)
    \/ \E t \in Threads : L107(t)
    \/ \E t \in Threads : L108(t)
    \/ \E t \in Threads : L109(t)
    \/ \E t \in Threads : L110(t)
    \/ \E t \in Threads : L110w(t)
    \/ \E t \in Threads : L113(t)
    \/ \E t \in Threads : L114(t)
    \/ \E t \in Threads : L115(t)
    \/ \E t \in Threads : L123(t)
    \/ \E t \in Threads : L124(t)
    \/ \E t \in Threads : L125(t)
    \/ \E t \in Threads : L136(t)
    \/ \E t \in Threads : L137(t)
    \/ \E t \in Threads : L138(t)
    \/ \E t \in Threads : L139(t)
    \/ Tick

SpecConc == Init /\ [][NextConc]_vars

(* ---------------------------------------------------------------------- *)
(* Vocabulary of the properties                                            *)
(* ---------------------------------------------------------------------- *)
\* this step is a call of op
Called(op) == calls' = calls + 1 /\ last'.op = op

\* this step is get_or_load(p)
CalledLoad(p) == Called("get_or_load") /\ last'.path = p

\* p is cached and its TTL has not elapsed / has elapsed
Cached(p) == OD_has(_cache, p)
Age(p) == clock - _access_times[p]
Live(p) == Cached(p) /\ Age(p) < ttl_seconds
Stale(p) == Cached(p) /\ Age(p) >= ttl_seconds

\* the paths a call logged an event for
Logged(ev, event) ==
    {ev.log[i].path : i \in {j \in 1 .. Len(ev.log) : ev.log[j].event = event}}

\* the last k entries of run
LastRun(k) == SubSeq(run, Len(run) - k + 1, Len(run))

DistinctPaths(r) ==
    \A i, j \in 1 .. Len(r) : i # j => r[i].path # r[j].path

SeqToSet(q) == {q[i] : i \in 1 .. Len(q)}

\* the three dictionaries hold the same keys, each once
Consistent ==
    /\ Cardinality(OD_keyset(_cache)) = Len(_cache)
    /\ DOMAIN _access_times = OD_keyset(_cache)
    /\ DOMAIN _file_sizes = OD_keyset(_cache)

(* ---------------------------------------------------------------------- *)
(* C1: for max_size N >= 1, after any sequence of get_or_load (successful  *)
(* or failing), remove, clear and get_stats calls, the number of cached    *)
(* entries is at most N.                                                   *)
(* ---------------------------------------------------------------------- *)
C1_CapacityBound ==
    /\ Len(_cache) <= max_size
    /\ Cardinality(OD_keyset(_cache)) <= max_size

\* a full cache in which a load has just evicted an entry, after a failed
\* load happened
C1_Witness ==
    /\ Len(_cache) = max_size
    /\ max_size = MaxCap
    /\ _evictions >= 1
    /\ _misses > opened
    /\ last.op = "get_or_load"
    /\ Logged(last, "EVICT") # {}

(* ---------------------------------------------------------------------- *)
(* C2: for a cache of capacity N, after get_or_load of N+1 distinct        *)
(* loadable paths in order, the first of them has been evicted and is      *)
(* absent from get_stats()['cached_files'], while the other N are present. *)
(* ---------------------------------------------------------------------- *)
C2_LRU ==
    (Len(run) >= max_size + 1 /\ DistinctPaths(LastRun(max_size + 1))) =>
        LET r == LastRun(max_size + 1)
            cached_files == SeqToSet(Stats.cached_files)
        IN /\ r[1].path \notin cached_files
           /\ \A i \in 2 .. Len(r) : r[i].path \in cached_files

\* a fresh cache of the largest capacity was given N+1 distinct paths, all
\* of them loaded from disk
C2_Witness ==
    /\ max_size = MaxCap
    /\ calls = max_size + 1
    /\ Len(run) = max_size + 1
    /\ DistinctPaths(run)
    /\ \A i \in 1 .. Len(run) : run[i].event = "LOAD"
    /\ _evictions = 1

(* ---------------------------------------------------------------------- *)
(* C3: with capacity N, after loading N distinct paths, re-accessing the   *)
(* oldest one (a hit) and then loading one more distinct path, the entry   *)
(* evicted is the second-oldest path and the re-accessed path is still     *)
(* cached. This holds for N >= 2; with N = 1 the re-accessed path is the   *)
(* only entry and is the one evicted.                                      *)
(* ---------------------------------------------------------------------- *)
\* run ends with: N loads of distinct paths, a hit of the first of them, a
\* load of one more path
C3_Scenario ==
    /\ Len(run) >= max_size + 2
    /\ LET r == LastRun(max_size + 2)
           n == max_size
       IN /\ DistinctPaths(SubSeq(r, 1, n))
          /\ \A i \in 1 .. n : r[i].event = "LOAD"
          /\ r[n + 1].path = r[1].path
          /\ r[n + 1].event = "HIT"
          /\ r[n + 2].event = "LOAD"
          /\ \A i \in 1 .. n : r[i].path # r[n + 2].path

\* C3 as stated, for every capacity N: the re-accessed path is still cached
\* and is not the entry evicted
C3_Original ==
    C3_Scenario =>
        LET r == LastRun(max_size + 2)
        IN /\ Cached(r[1].path)
           /\ r[1].path \notin r[max_size + 2].evicted

\* C3, amended: for N >= 2 the entry evicted is the second-oldest path and
\* the re-accessed path is still cached; for N = 1 the re-accessed path is
\* the one evicted
C3_Recency ==
    C3_Scenario =>
        LET r == LastRun(max_size + 2)
        IN IF max_size >= 2
           THEN /\ r[max_size + 2].evicted = {r[2].path}
                /\ ~Cached(r[2].path)
                /\ Cached(r[1].path)
           ELSE /\ r[max_size + 2].evicted = {r[1].path}
                /\ ~Cached(r[1].path)

C3_Witness ==
    /\ C3_Scenario
    /\ max_size >= 2
    /\ run[Len(run)].evicted = {run[Len(run) - max_size].path}
    /\ Cached(run[Len(run) - max_size - 1].path)

(* ---------------------------------------------------------------------- *)
(* C4: get_or_load(path) on a cached path whose TTL has elapsed is a miss, *)
(* whether or not the cache is at capacity: the old entry is discarded,    *)
(* the miss counter increments by exactly one, the hit and the eviction    *)
(* counters are unchanged, no other entry is evicted or reordered and,     *)
(* the file being loadable, it is loaded again and inserted as             *)
(* most-recently-used with a fresh timestamp.                              *)
(* ---------------------------------------------------------------------- *)
C4_ExpiryStep(p) ==
    (Stale(p) /\ CalledLoad(p)) =>
        /\ _misses' = _misses + 1
        /\ _hits' = _hits
        /\ _evictions' = _evictions
        /\ Logged(last', "EXPIRED") = {p}
        /\ Logged(last', "HIT") = {}
        /\ Logged(last', "EVICT") = {}
        /\ OD_without(_cache', p) = OD_without(_cache, p)
        /\ \A q \in OD_keyset(_cache) \ {p} :
               /\ _access_times'[q] = _access_times[q]
               /\ _file_sizes'[q] = _file_sizes[q]
        /\ IF fs[p] = "ok"
           THEN /\ last'.raised = "None"
                /\ opened' = opened + 1
                /\ last'.ret = opened'
                /\ last'.ret # OD_get(_cache, p)
                /\ Len(_cache') = Len(_cache)
                /\ _cache'[Len(_cache')] = [key |-> p, value |-> last'.ret]
                /\ _access_times'[p] = clock
           ELSE /\ last'.raised # "None"
                /\ opened' = opened
                /\ ~OD_has(_cache', p)

\* C4: every lookup of a cached path whose TTL has elapsed is such a miss
C4_TTL == [][\A p \in Paths : C4_ExpiryStep(p)]_vars

\* an expired entry of a full cache holding another entry was just reloaded
C4_Witness ==
    /\ last.op = "get_or_load"
    /\ Logged(last, "EXPIRED") = {last.path}
    /\ Logged(last, "LOAD") = {last.path}
    /\ Len(_cache) = max_size
    /\ Len(_cache) >= 2
    /\ _cache[Len(_cache)].key = last.path
    /\ _access_times[last.path] = clock
    /\ _evictions = 0

(* ---------------------------------------------------------------------- *)
(* C5: get_or_load(path) on a cached path with now - last_access < ttl     *)
(* returns the stored handle, moves the path to the most-recently-used     *)
(* position, sets its last_access to now, increments hits by one and       *)
(* changes nothing else; storage is not consulted, so the call succeeds    *)
(* even if the file no longer exists.                                      *)
(* ---------------------------------------------------------------------- *)
C5_HitStep(p) ==
    (Live(p) /\ CalledLoad(p)) =>
        /\ last'.raised = "None"
        /\ last'.ret = OD_get(_cache, p)
        /\ last'.log = <<LogEv("HIT", p)>>
        /\ _cache'[Len(_cache')] = [key |-> p, value |-> OD_get(_cache, p)]
        /\ OD_without(_cache', p) = OD_without(_cache, p)
        /\ Len(_cache') = Len(_cache)
        /\ OD_keyset(_cache') = OD_keyset(_cache)
        /\ _access_times' = [_access_times EXCEPT ![p] = clock]
        /\ _file_sizes' = _file_sizes
        /\ _hits' = _hits + 1
        /\ _misses' = _misses
        /\ _evictions' = _evictions
        /\ opened' = opened
        /\ UNCHANGED <<configVars, fs>>

\* C5: every lookup of a cached path whose TTL has not elapsed is such a hit
C5_Hit == [][\A p \in Paths : C5_HitStep(p)]_vars

\* a path that was not the most recent one was hit some time after it was
\* loaded, its file having been deleted from disk
C5_Witness ==
    /\ Len(run) >= 3
    /\ run[Len(run)].event = "HIT"
    /\ run[Len(run) - 1].path # run[Len(run)].path
    /\ run[Len(run) - 2] = [path |-> run[Len(run)].path, event |-> "LOAD",
                            evicted |-> {}]
    /\ last.op = "get_or_load"
    /\ last.at > 0
    /\ fs[last.path] = "missing"
    /\ Len(_cache) >= 2

(* ---------------------------------------------------------------------- *)
(* C6: get_or_load of an uncached path fails with FileNotFoundError when   *)
(* the path does not exist and with RuntimeError when it exists but cannot *)
(* be parsed; in both cases the miss counter has been incremented, the     *)
(* path is not cached afterwards and no other entry is evicted, inserted   *)
(* or reordered, even when the cache is at capacity.                       *)
(* ---------------------------------------------------------------------- *)
C6_FailStep(p) ==
    (~Live(p) /\ fs[p] # "ok" /\ CalledLoad(p)) =>
        /\ last'.raised = (IF fs[p] = "missing" THEN "FileNotFoundError"
                                                ELSE "RuntimeError")
        /\ last'.ret = None
        /\ _misses' = _misses + 1
        /\ _hits' = _hits
        /\ _evictions' = _evictions
        /\ opened' = opened
        /\ ~OD_has(_cache', p)
        /\ _cache' = OD_without(_cache, p)
        /\ ~Cached(p) => UNCHANGED cacheVars
        /\ \A q \in OD_keyset(_cache) \ {p} :
               /\ _access_times'[q] = _access_times[q]
               /\ _file_sizes'[q] = _file_sizes[q]

\* C6: every miss on a path that is missing or unparseable fails that way
C6_FailedLoad == [][\A p \in Paths : C6_FailStep(p)]_vars

\* two loads have failed, the last one of a missing file on a cache at
\* capacity, which is still full
C6_Witness ==
    /\ last.op = "get_or_load"
    /\ last.raised = "FileNotFoundError"
    /\ Logged(last, "EXPIRED") = {}
    /\ _misses >= opened + 2
    /\ Len(_cache) = max_size
    /\ max_size = MaxCap

(* ---------------------------------------------------------------------- *)
(* C7: a successful load evicts an entry only when the cache already holds *)
(* max_size entries; it then evicts exactly one entry, the one with the    *)
(* oldest last_access among all cached entries whatever the file sizes,    *)
(* increments the eviction counter by one and inserts the new path at the  *)
(* most-recently-used position. In every reachable state the recency order *)
(* of the cache is the order of ascending last_access.                     *)
(* ---------------------------------------------------------------------- *)
C7_AscendingAccess ==
    \A i, j \in 1 .. Len(_cache) :
        i < j => _access_times[_cache[i].key] <= _access_times[_cache[j].key]

C7_LoadStep(p) ==
    (~Cached(p) /\ fs[p] = "ok" /\ CalledLoad(p)) =>
        /\ _cache'[Len(_cache')] = [key |-> p, value |-> last'.ret]
        /\ _access_times'[p] = clock
        /\ _file_sizes'[p] = getsize(p)
        /\ IF Len(_cache) >= max_size
           THEN /\ _evictions' = _evictions + 1
                /\ Len(_cache') = Len(_cache)
                /\ \E v \in OD_keyset(_cache) :
                      /\ Logged(last', "EVICT") = {v}
                      /\ OD_keyset(_cache') = (OD_keyset(_cache) \ {v}) \cup {p}
                      /\ \A q \in OD_keyset(_cache) :
                             _access_times[v] <= _access_times[q]
                      /\ OD_without(_cache', p) = OD_without(_cache, v)
           ELSE /\ _evictions' = _evictions
                /\ Logged(last', "EVICT") = {}
                /\ OD_without(_cache', p) = _cache

\* C7: the order of the cache is ascending in last_access, and every
\* successful load evicts the oldest entry exactly when the cache is full
C7_StrictLRU ==
    /\ []C7_AscendingAccess
    /\ [][\A p \in Paths : C7_LoadStep(p)]_vars

\* the entry just evicted was neither the largest nor the smallest file
\* cached, and the entries left have different access times
C7_Witness ==
    /\ last.op = "get_or_load"
    /\ \E v \in Paths :
          /\ Logged(last, "EVICT") = {v}
          /\ \E q \in OD_keyset(_cache) : getsize(q) > getsize(v)
          /\ \E q \in OD_keyset(_cache) : getsize(q) < getsize(v)
    /\ Len(_cache) = 2
    /\ _access_times[_cache[1].key] < _access_times[_cache[2].key]

(* ---------------------------------------------------------------------- *)
(* C8: remove(p) for a path that is not cached, and clear() on an empty    *)
(* cache, never raise and leave every field of get_stats() unchanged; and  *)
(* remove(p) done twice (or clear() done twice) yields the same state as   *)
(* done once.                                                              *)
(* ---------------------------------------------------------------------- *)
C8_NoopStep ==
    /\ \A p \in Paths :
          (~Cached(p) /\ Called("remove") /\ last'.path = p) =>
              /\ last'.raised = "None"
              /\ Stats' = Stats
              /\ UNCHANGED <<cacheVars, counterVars, configVars>>
    /\ (_cache = <<>> /\ Called("clear")) =>
              /\ last'.raised = "None"
              /\ Stats' = Stats
              /\ UNCHANGED <<cacheVars, counterVars, configVars>>

C8_TwiceStep ==
    /\ (last.op = "remove" /\ Called("remove") /\ last'.path = last.path) =>
              /\ last'.raised = "None"
              /\ UNCHANGED <<cacheVars, counterVars, configVars>>
    /\ (last.op = "clear" /\ Called("clear")) =>
              /\ last'.raised = "None"
              /\ UNCHANGED <<cacheVars, counterVars, configVars>>
    /\ Called("remove") => ~OD_has(_cache', last'.path)
    /\ Called("clear") => _cache' = <<>>

\* C8: remove of an absent path and clear of an empty cache change nothing,
\* and neither does a second remove(p) or clear()
C8_Idempotent == [][C8_NoopStep /\ C8_TwiceStep]_vars

\* a path was loaded and then removed twice in a row
C8_Witness ==
    /\ last.op = "remove"
    /\ last.log = <<>>
    /\ calls >= 3
    /\ opened >= 1
    /\ ~Cached(last.path)
    /\ _misses >= 1

(* ---------------------------------------------------------------------- *)
(* C9: get_stats is a pure read: it leaves the cached entries, their       *)
(* recency order, their last_access times, their sizes and the three       *)
(* counters unchanged; it performs no TTL sweep, so an entry whose TTL has *)
(* elapsed is still reported in size and cached_files.                     *)
(* ---------------------------------------------------------------------- *)
C9_StatsStep ==
    Called("get_stats") =>
        /\ UNCHANGED <<cacheVars, counterVars, configVars, opened>>
        /\ last'.raised = "None"
        /\ last'.ret.size = Len(_cache)
        /\ last'.ret.cached_files = OD_keys(_cache)
        /\ \A p \in Paths : Stale(p) =>
               \E i \in 1 .. Len(last'.ret.cached_files) :
                   last'.ret.cached_files[i] = p
        /\ last'.ret.hits = _hits
        /\ last'.ret.misses = _misses
        /\ last'.ret.evictions = _evictions

\* C9: every get_stats call leaves the cache as it is and reports it as it is
C9_PureRead == [][C9_StatsStep]_vars

\* get_stats has just reported an entry whose TTL has elapsed
C9_Witness ==
    /\ last.op = "get_stats"
    /\ last.at = clock
    /\ \E p \in Paths :
          /\ Stale(p)
          /\ \E i \in 1 .. Len(last.ret.cached_files) :
                 last.ret.cached_files[i] = p
    /\ last.ret.size = Len(_cache)

(* ---------------------------------------------------------------------- *)
(* C10: the cache operations are not safe under interleaving. When two     *)
(* callers run get_or_load / remove / clear with no lock, a state is       *)
(* reachable that no serial order of the calls reaches: more than max_size *)
(* entries are cached, or a call fails because the key it is about to      *)
(* promote, read or delete was removed by the other caller. Such a state   *)
(* arises only where the steps of two calls have interleaved.              *)
(* ---------------------------------------------------------------------- *)
\* a call ended with an exception that only a vanished key or entry causes
KeyVanished ==
    \E t \in Threads : loc[t].raised \in {"KeyError", "StopIteration"}

\* C10: more than max_size entries, a call failing on a vanished key, or
\* dictionaries that disagree once all calls have returned, occur only after
\* the steps of two calls have interleaved
C10_OnlyByInterleaving ==
    /\ (Len(_cache) > max_size \/ KeyVanished) => overlapped
    /\ (\A t \in Threads : pc[t] = "idle") => (Consistent \/ overlapped)

\* two loads have returned and left more than max_size entries cached
C10_Witness ==
    /\ \A t \in Threads : pc[t] = "idle" /\ loc[t].raised = "None"
    /\ Len(_cache) > max_size
    /\ Consistent
    /\ _evictions = 0
    /\ overlapped


(* ---------------------------------------------------------------------- *)
(* spatial_tree_extractor.py                                               *)
(*                                                                         *)
(* The file is an input: which project records it lists, what the          *)
(* decomposition and the containment query answer for each entity, and     *)
(* which entities are malformed, so that reading an attribute of them      *)
(* raises. get_decomposition is a library call; whatever list it returns   *)
(* is taken as it comes, entities of a deeper level and physical elements  *)
(* included.                                                               *)
(* ---------------------------------------------------------------------- *)
\* a level table that lets a project hold buildings directly
valid_child_types_Flat(element_type) ==
    CASE element_type = "IfcProject" -> {"IfcSite", "IfcBuilding"}
      [] element_type = "IfcSite" -> {"IfcBuilding"}
      [] element_type = "IfcBuilding" -> {"IfcBuildingStorey"}
      [] element_type = "IfcBuildingStorey" -> {"IfcSpace"}
      [] OTHER -> {}

\* a level table with a sixth level under the spaces
valid_child_types_Deep(element_type) ==
    CASE element_type = "IfcProject" -> {"IfcSite"}
      [] element_type = "IfcSite" -> {"IfcBuilding"}
      [] element_type = "IfcBuilding" -> {"IfcBuildingStorey"}
      [] element_type = "IfcBuildingStorey" -> {"IfcSpace"}
      [] element_type = "IfcSpace" -> {"IfcFurnishingElement"}
      [] OTHER -> {}

\* valid_child_types.get(element_type, set())
valid_child_types(element_type) ==
    CASE element_type = "IfcProject" -> {"IfcSite"}
      [] element_type = "IfcSite" -> {"IfcBuilding"}
      [] element_type = "IfcBuilding" -> {"IfcBuildingStorey"}
      [] element_type = "IfcBuildingStorey" -> {"IfcSpace"}
      [] element_type = "IfcSpace" -> {}
      [] OTHER -> {}

\* SpatialNode(...); via is not a field of the dataclass: it records which
\* statement attached the node to its parent
SpatialNode(element, via, children) ==
    [global_id |-> element, ifc_type |-> EntityType[element],
     children |-> children, via |-> via]

\* what _build_node and its loops hand back: a value, or an exception
\* that is on its way up
Built(v) == [raised |-> FALSE, value |-> v]
Propagates == [raised |-> TRUE, value |-> <<>>]

\* the loop over the contained elements, inside its try: the first element
\* whose is_a() raises ends the loop and the leaves appended so far stay
RECURSIVE contained_leaves(_, _)
contained_leaves(f, items) ==
    IF items = <<>> THEN <<>>
    ELSE LET contained_element == Head(items)
         IN IF contained_element \in f.broken THEN <<>>
            ELSE (IF EntityType[contained_element] \notin SPATIAL_ELEMENT_TYPES
                  THEN <<SpatialNode(contained_element, "containment", <<>>)>>
                  ELSE <<>>)
                 \o contained_leaves(f, Tail(items))

RECURSIVE _build_node(_, _, _)
RECURSIVE decomposition_children(_, _, _)

\* the loop over the decomposition; nothing in it is inside a try
decomposition_children(f, items, allowed_children) ==
    IF items = <<>> THEN Built(<<>>)
    ELSE LET child == Head(items)
         IN IF child \in f.broken THEN Propagates
            ELSE LET rest == decomposition_children(f, Tail(items),
                                                    allowed_children)
                 IN IF EntityType[child] \in allowed_children
                    THEN LET child_node == _build_node(f, child,
                                                       "decomposition")
                         IN IF child_node.raised \/ rest.raised
                            THEN Propagates
                            ELSE Built(<<child_node.value>> \o rest.value)
                    ELSE rest

\* _build_node(element)
_build_node(f, element, via) ==
    IF element \in f.broken THEN Propagates
    ELSE
    LET element_type == EntityType[element]
        node == SpatialNode(element, via, <<>>)
        allowed_children == valid_child_types(element_type)
        decomposition == f.decomposition[element]
    IN IF allowed_children = {} THEN Built(node)
       ELSE IF decomposition.raises THEN Built(node)
       ELSE LET children == decomposition_children(f, decomposition.items,
                                                   allowed_children)
                leaves ==
                    IF /\ element_type \in {"IfcBuildingStorey", "IfcSpace"}
                       /\ ~f.contained[element].raises
                    THEN contained_leaves(f, f.contained[element].items)
                    ELSE <<>>
            IN IF children.raised THEN Propagates
               ELSE Built([node EXCEPT !.children = children.value \o leaves])

\* the project taken when the file lists several: the last one
project_Last(projects) == projects[Len(projects)]

\* project = projects[0]
project(projects) == projects[1]

\* what open_file raises for what the cache raised
open_file_error(raised) ==
    CASE raised = "FileNotFoundError" ->
             [raised |-> "FileNotFoundError", msg |-> "IFC file not found"]
      [] raised = "RuntimeError" ->
             [raised |-> "RuntimeError", msg |-> "Failed to open IFC file"]
      [] OTHER -> [raised |-> "None", msg |-> ""]

\* the body of open_file of the extractors that go through the cache:
\* self.ifc_file = self.cache.get_or_load(file_path)
OpenThroughCache(x, file_path) ==
    /\ get_or_load(file_path)
    /\ self_ifc_file' = IF last'.raised = "None"
                        THEN [self_ifc_file EXCEPT ![x] = last'.ret]
                        ELSE self_ifc_file

\* the outcome of a call whose open_file raised
OpenFailed(op, arg, raised) ==
    Outcome(op, arg, open_file_error(raised).raised,
            open_file_error(raised).msg, None)

\* open_file(file_path) of SpatialTreeExtractor
open_file(file_path) ==
    /\ calls < MaxExtractorCalls
    /\ OpenThroughCache("SpatialTreeExtractor", file_path)
    /\ outcome' = OpenFailed("open_file", file_path, last'.raised)
    /\ UNCHANGED ifc

\* extract_tree(file_path)
extract_tree(file_path) ==
    /\ calls < MaxExtractorCalls
    /\ OpenThroughCache("SpatialTreeExtractor", file_path)
    /\ outcome' =
          IF last'.raised # "None"
          THEN OpenFailed("extract_tree", file_path, last'.raised)
          ELSE LET projects == ifc.projects
               IN IF projects = <<>>
                  THEN Outcome("extract_tree", file_path, "RuntimeError",
                               "No IfcProject found in IFC file", None)
                  ELSE LET tree == _build_node(ifc, project(projects), "root")
                       IN IF tree.raised
                          THEN Outcome("extract_tree", file_path, "Exception",
                                       "", None)
                          ELSE Outcome("extract_tree", file_path, "None", "",
                                       tree.value)
    /\ UNCHANGED ifc

\* records for the spaces of the list only
storey_records_Spaces(items) ==
    LET spaces == SelectSeq(items, LAMBDA e : EntityType[e] = "IfcSpace")
    IN [i \in 1 .. Len(spaces) |->
           [global_id |-> spaces[i], ifc_type |-> EntityType[spaces[i]]]]

\* the records get_elements_in_storey builds, one per element
storey_records(items) ==
    [i \in 1 .. Len(items) |->
        [global_id |-> items[i], ifc_type |-> EntityType[items[i]]]]

\* get_elements_in_storey(file_path, storey_guid)
get_elements_in_storey(file_path, storey_guid) ==
    /\ calls < MaxExtractorCalls
    /\ OpenThroughCache("SpatialTreeExtractor", file_path)
    /\ outcome' =
          LET arg == <<file_path, storey_guid>>
              op == "get_elements_in_storey"
          IN
          IF last'.raised # "None"
          THEN OpenFailed(op, arg, last'.raised)
          ELSE IF storey_guid \notin Entities
          THEN Outcome(op, arg, "ValueError",
                       "Building storey with GUID {storey_guid} not found",
                       None)
          ELSE IF storey_guid \in ifc.broken
          THEN Outcome(op, arg, "Exception", "", None)
          ELSE IF EntityType[storey_guid] # "IfcBuildingStorey"
          THEN Outcome(op, arg, "ValueError",
                       "Element {storey_guid} is not an IfcBuildingStorey",
                       None)
          ELSE LET contained_elements == ifc.decomposition[storey_guid]
               IN IF \/ contained_elements.raises
                     \/ \E i \in 1 .. Len(contained_elements.items) :
                           contained_elements.items[i] \in ifc.broken
                  THEN Outcome(op, arg, "Exception", "", None)
                  ELSE Outcome(op, arg, "None", "",
                               storey_records(contained_elements.items))
    /\ UNCHANGED ifc

\* the files the tree is extracted from; a building may be listed under
\* the project and under the site, and a space that holds furniture lists
\* its own storey among its parts, which closes a cycle
TreeFiles ==
    {[schema |-> EmptyIfc.schema,
      instances |-> EmptyIfc.instances,
      unknown |-> EmptyIfc.unknown,
      projects |-> ps,
      decomposition |->
         [e \in Entities |->
            CASE e \in {"P1", "P2"} -> dP
              [] e = "S1" -> dS
              [] e = "B1" -> dB
              [] e = "ST1" -> dSt
              [] e = "SP1" -> IF cSp.items = <<>> THEN Returns(<<>>)
                              ELSE Returns(<<"F1", "ST1">>)
              [] OTHER -> Returns(<<>>)],
      contained |->
         [e \in Entities |->
            CASE e = "ST1" -> cSt
              [] e = "SP1" -> cSp
              [] OTHER -> Returns(<<>>)],
      broken |-> b,
      psets |-> <<>>,
      throwing |-> {},
      throws |-> "RuntimeError"] :
        ps \in {<<>>, <<"P1">>, <<"P2", "P1">>},
        dP \in {Returns(<<"S1">>), Returns(<<"B1", "S1">>)},
        dS \in {Raises, Returns(<<"B1">>), Returns(<<"B1", "ST1">>)},
        dB \in {Returns(<<"ST1">>), Returns(<<"ST1", "W1">>)},
        dSt \in {Raises, Returns(<<"SP1">>), Returns(<<"SP1", "W1">>),
                 Returns(<<"W1", "SP1">>)},
        cSt \in {Raises, Returns(<<>>), Returns(<<"W1">>),
                 Returns(<<"W1", "SP1">>), Returns(<<"F1", "W1">>)},
        cSp \in {Returns(<<>>), Returns(<<"F1">>)},
        b \in {{}, {"SP1"}, {"W1"}}}

\* a path whose file has been deleted, one of a valid file, one of a file
\* that does not parse
MissingPath == VolatilePath
TreePaths == {MissingPath, MissingPath + 1, BadPath}
StoreyGuids == {"ST1", "W1", UnknownGuid}

\* a fresh cache and a fresh extractor
InitExtractor ==
    /\ max_size = MaxCap
    /\ ttl_seconds = MaxTtlHours * SecondsPerHour
    /\ _cache = <<>>
    /\ _access_times = EmptyDict
    /\ _file_sizes = EmptyDict
    /\ _hits = 0
    /\ _misses = 0
    /\ _evictions = 0
    /\ clock = 0
    /\ fs = [p \in Paths |-> IF p = BadPath THEN "corrupt"
                             ELSE IF p = MissingPath THEN "missing"
                             ELSE "ok"]
    /\ opened = 0
    /\ calls = 0
    /\ last = Event("__init__", None, "None", None, <<>>)
    /\ run = <<>>
    /\ pc = [t \in Threads |-> "idle"]
    /\ loc = [t \in Threads |-> NoLocals]
    /\ overlapped = FALSE
    /\ self_ifc_file = NoHandles
    /\ outcome = NoOutcome
    /\ _global_cache = None
    /\ self_cache = NoCaches
    /\ subprocess = NoSubprocess
    /\ disk = {}

InitTree ==
    /\ InitExtractor
    /\ ifc \in TreeFiles

NextTree ==
    \/ \E p \in TreePaths : open_file(p)
    \/ \E p \in TreePaths : extract_tree(p)
    \/ \E p \in TreePaths : \E g \in StoreyGuids : get_elements_in_storey(p, g)

SpecTree == InitTree /\ [][NextTree]_vars

(* ---------------------------------------------------------------------- *)
(* Properties of the spatial tree                                          *)
(* ---------------------------------------------------------------------- *)
\* an extractor call was made in this step
ExtractorCalled(op) == calls' = calls + 1 /\ outcome'.op = op

\* the last call was op and it returned
Returned(op) == outcome.op = op /\ outcome.raised = "None"

\* the last call was op and the file was opened for it
Opened(op) == outcome.op = op /\ last.raised = "None"

RECURSIVE Nodes(_)
Nodes(n) == {n} \cup UNION {Nodes(n.children[i]) : i \in DOMAIN n.children}

Children(n) == {n.children[i] : i \in DOMAIN n.children}

\* the nodes of the tree extract_tree returned
TreeNodes == Nodes(outcome.value)

SixSpatialTypes ==
    {"IfcProject", "IfcSite", "IfcBuilding", "IfcBuildingStorey",
     "IfcSpace", "IfcZone"}

LevelTable ==
    {<<"IfcProject", "IfcSite">>, <<"IfcSite", "IfcBuilding">>,
     <<"IfcBuilding", "IfcBuildingStorey">>,
     <<"IfcBuildingStorey", "IfcSpace">>}

\* how many failures reading the file meets: malformed entities and
\* queries that raise
Failures(f) ==
    Cardinality(f.broken)
    + Cardinality({e \in Entities : f.decomposition[e].raises})
    + Cardinality({e \in Entities : f.contained[e].raises})

\* C11 as stated: in every tree returned by extract_tree every parent-child
\* edge is Project->Site, Site->Building, Building->Storey or
\* Storey->Space, and no Space node has children.
C11_Original ==
    Returned("extract_tree") =>
        \A n \in TreeNodes :
            /\ \A c \in Children(n) :
                  <<n.ifc_type, c.ifc_type>> \in LevelTable
            /\ n.ifc_type = "IfcSpace" => n.children = <<>>

\* C11, amended: in every tree returned by extract_tree every parent-child
\* edge is one of the four level edges, or joins a Storey to a childless
\* node of a non-spatial type (an element the storey contains); no Space
\* node has children.
C11_LevelValidity ==
    Returned("extract_tree") =>
        \A n \in TreeNodes :
            /\ \A c \in Children(n) :
                  \/ <<n.ifc_type, c.ifc_type>> \in LevelTable
                  \/ /\ n.ifc_type = "IfcBuildingStorey"
                     /\ c.ifc_type \notin SixSpatialTypes
                     /\ c.children = <<>>
            /\ n.ifc_type = "IfcSpace" => n.children = <<>>

\* a tree of all five levels whose storey also holds a wall
C11_Witness ==
    /\ Returned("extract_tree")
    /\ \E n \in TreeNodes :
          /\ n.ifc_type = "IfcBuildingStorey"
          /\ \E c \in Children(n) : c.ifc_type = "IfcSpace"
          /\ \E c \in Children(n) : c.ifc_type = "IfcWall"
    /\ outcome.value.ifc_type = "IfcProject"

\* the children of n that the decomposition loop attached
DecompositionChildren(n) ==
    SelectSeq(n.children, LAMBDA c : c.via = "decomposition")

\* C12: for every Storey and every Space node of the tree built by
\* extract_tree, each element the containment relationship relates to it
\* and whose type is not spatial is a childless leaf child of the node,
\* placed after the node's decomposition children. Stated for files in
\* which no query fails.
C12_Merge ==
    (Returned("extract_tree") /\ Failures(ifc) = 0) =>
        \A n \in TreeNodes :
            n.ifc_type \in {"IfcBuildingStorey", "IfcSpace"} =>
                LET items == ifc.contained[n.global_id].items
                IN \A k \in DOMAIN items :
                      EntityType[items[k]] \notin SixSpatialTypes =>
                          \E i \in DOMAIN n.children :
                             /\ n.children[i].global_id = items[k]
                             /\ n.children[i].children = <<>>
                             /\ i > Len(DecompositionChildren(n))

\* C13: in every tree built by extract_tree no child attached through the
\* containment relationship has one of the six spatial types; a contained
\* element of a spatial type is left out.
C13_Exclusivity ==
    Returned("extract_tree") =>
        \A n \in TreeNodes : \A c \in Children(n) :
            c.via = "containment" => c.ifc_type \notin SixSpatialTypes

\* a storey that contains a wall and a space: the wall is attached
C13_Witness ==
    /\ Returned("extract_tree")
    /\ ifc.contained["ST1"] = Returns(<<"W1", "SP1">>)
    /\ ifc.broken = {}
    /\ \E n \in TreeNodes :
          /\ n.global_id = "ST1"
          /\ \E c \in Children(n) :
                c.via = "containment" /\ c.global_id = "W1"

\* C14: if a single node lookup, decomposition query or containment query
\* fails while extract_tree builds the tree, extract_tree still returns a
\* tree.
C14_FailureLocality ==
    (Opened("extract_tree") /\ ifc.projects # <<>> /\ Failures(ifc) = 1)
        => outcome.raised = "None"

\* C15: with zero project records extract_tree raises RuntimeError 'No
\* IfcProject found' and returns nothing; otherwise the root of the tree it
\* returns is the first project record of the file, of type IfcProject.
C15_Root ==
    Opened("extract_tree") =>
        /\ ifc.projects = <<>> =>
              /\ outcome.raised = "RuntimeError"
              /\ outcome.msg = "No IfcProject found in IFC file"
              /\ outcome.value = None
        /\ ifc.projects # <<>> =>
              /\ outcome.raised # "RuntimeError"
              /\ outcome.raised = "None" =>
                    /\ outcome.value.global_id = ifc.projects[1]
                    /\ outcome.value.ifc_type = "IfcProject"

\* a file with two project records: the tree starts at the first
C15_Witness ==
    /\ Returned("extract_tree")
    /\ ifc.projects = <<"P2", "P1">>
    /\ outcome.value.global_id = "P2"
    /\ outcome.value.children # <<>>

GlobalIds(s) == [i \in DOMAIN s |-> s[i].global_id]

C17_OpenNonexistent ==
    [][(ExtractorCalled("open_file") /\ ~exists(outcome'.arg)) =>
          /\ outcome'.raised = "RuntimeError"
          /\ outcome'.msg = "Failed to open IFC file"
          /\ self_ifc_file' = self_ifc_file]_vars

(* ---------------------------------------------------------------------- *)
(* property_extractor.py and scripts/extract_properties.py                 *)
(*                                                                         *)
(* A property-set name is a sequence of the pieces below, so that a name   *)
(* can start with 'Qto_', end with 'Type' and hold 'Type.' inside, in any  *)
(* combination. get_psets is a library call: the merged view it returns,   *)
(* and whether it raises for a malformed entity, are inputs.               *)
(* ---------------------------------------------------------------------- *)
NamePieces == {"Qto_", "Type", ".", "Pset_"}

PsetNames ==
    UNION {[1 .. n -> NamePieces] : n \in 1 .. MaxNameLen}

\* pset_name.startswith("Qto_")
startswith_Qto(pset_name) == pset_name[1] = "Qto_"

\* pset_name.endswith("Type")
endswith_Type(pset_name) == pset_name[Len(pset_name)] = "Type"

\* "Type." in pset_name
contains_TypeDot(pset_name) ==
    \E i \in 1 .. Len(pset_name) - 1 :
        pset_name[i] = "Type" /\ pset_name[i + 1] = "."

\* the bucket chosen with the type test made first
bucket_TypeFirst(pset_name) ==
    IF endswith_Type(pset_name) \/ contains_TypeDot(pset_name)
    THEN "type_properties"
    ELSE IF startswith_Qto(pset_name) THEN "quantities"
    ELSE "property_sets"

\* the if / elif / else of extract_properties: which dictionary a
\* property set goes to
bucket(pset_name) ==
    IF startswith_Qto(pset_name) THEN "quantities"
    ELSE IF endswith_Type(pset_name) \/ contains_TypeDot(pset_name)
    THEN "type_properties"
    ELSE "property_sets"

\* the values of a raw property set: None, a primitive, a list of a
\* primitive and an object, an object
RawValue ==
    [id |-> [kind |-> "prim", v |-> "42"],
     type |-> [kind |-> "prim", v |-> "IfcPropertySet"],
     IsExternal |-> [kind |-> "prim", v |-> "True"],
     FireRating |-> [kind |-> "none", v |-> "None"],
     Reference |-> [kind |-> "object", v |-> "entity"],
     Layers |-> [kind |-> "list",
                 v |-> <<[kind |-> "prim", v |-> "1"],
                         [kind |-> "object", v |-> "entity"]>>]]

\* str(value)
str(value) == [kind |-> "prim", v |-> <<"str", value.v>>]

\* the value _clean_property_dict stores for a raw value
clean_value(value) ==
    CASE value.kind = "none" -> value
      [] value.kind = "prim" -> value
      [] value.kind = "list" ->
            [kind |-> "list",
             v |-> [i \in DOMAIN value.v |->
                       IF value.v[i].kind # "prim" THEN str(value.v[i])
                       ELSE value.v[i]]]
      [] OTHER -> str(value)

\* _clean_property_dict(pset_data)
_clean_property_dict(pset_data) ==
    [key \in DOMAIN pset_data \ {"id", "type"} |-> clean_value(pset_data[key])]

\* a dictionary restricted to the keys that go to bucket b
Bucket(psets, b) ==
    [pset_name \in {n \in DOMAIN psets : bucket(n) = b} |->
        _clean_property_dict(psets[pset_name])]

\* a get_element_by_guid that lets the lookup error through
get_element_by_guid_Raising(handle, global_id) ==
    IF handle = None
    THEN [raised |-> "RuntimeError",
          msg |-> "No IFC file loaded. Call open_file() first.",
          value |-> None, found |-> FALSE]
    ELSE IF global_id \notin Entities
    THEN [raised |-> "RuntimeError", msg |-> "by_guid", value |-> None,
          found |-> FALSE]
    ELSE [raised |-> "None", msg |-> "", value |-> global_id, found |-> TRUE]

\* get_element_by_guid(global_id), on an extractor whose self.ifc_file is
\* handle; found tells an element from None
get_element_by_guid(handle, global_id) ==
    IF handle = None
    THEN [raised |-> "RuntimeError",
          msg |-> "No IFC file loaded. Call open_file() first.",
          value |-> None, found |-> FALSE]
    ELSE IF global_id \notin Entities
    THEN [raised |-> "None", msg |-> "", value |-> None, found |-> FALSE]
    ELSE [raised |-> "None", msg |-> "", value |-> global_id, found |-> TRUE]

\* the body of extract_properties(global_id), on an extractor whose
\* self.ifc_file is handle and reads file f
ExtractProperties(f, handle, global_id) ==
    LET op == "extract_properties"
        found == get_element_by_guid(handle, global_id)
    IN IF handle = None
       THEN Outcome(op, global_id, "RuntimeError",
                    "No IFC file loaded. Call open_file() first.", None)
       ELSE IF found.raised # "None"
       THEN Outcome(op, global_id, found.raised, found.msg, None)
       ELSE IF ~found.found
       THEN Outcome(op, global_id, "RuntimeError",
                    "Element not found with GlobalId: {global_id}", None)
       ELSE IF global_id \in f.broken \cup f.throwing
       THEN Outcome(op, global_id, f.throws, "", None)
       ELSE Outcome(op, global_id, "None", "",
                    [global_id |-> global_id,
                     element_type |-> EntityType[global_id],
                     property_sets |-> Bucket(f.psets, "property_sets"),
                     quantities |-> Bucket(f.psets, "quantities"),
                     type_properties |-> Bucket(f.psets, "type_properties")])

\* extract_properties(global_id)
extract_properties(global_id) ==
    /\ outcome' = ExtractProperties(ifc, self_ifc_file["PropertyExtractor"],
                                    global_id)
    /\ UNCHANGED <<ifc, self_ifc_file, configVars, serviceVars, cacheVars, counterVars,
                   clock, fs, opened, calls, last, run, concVars>>

\* what ifcopenshell.open raises for a path that does not exist, by the
\* version of the library
OpenMissingRaises == {"FileNotFoundError", "OSError"}

\* what open_file of PropertyExtractor raises for what ifcopenshell.open
\* raised
PropertyExtractor_open_file_error(raised) ==
    CASE raised = "None" -> [raised |-> "None", msg |-> ""]
      [] raised = "FileNotFoundError" ->
            [raised |-> "FileNotFoundError", msg |-> "IFC file not found"]
      [] OTHER ->
            [raised |-> "RuntimeError", msg |-> "Failed to open IFC file"]

\* what ifcopenshell.open(ifc_file_path) may raise
ifcopenshell_open(ifc_file_path) ==
    IF ~exists(ifc_file_path) THEN OpenMissingRaises
    ELSE IF ~parses(ifc_file_path) THEN {"Exception"}
    ELSE {"None"}

\* an open_file that drops the handle it holds before it opens the next
PropertyExtractor_open_file_Clearing(ifc_file_path) ==
    /\ opened < MaxExtractorCalls
    /\ \E raised \in ifcopenshell_open(ifc_file_path) :
          LET e == PropertyExtractor_open_file_error(raised)
          IN /\ outcome' = Outcome("open_file", ifc_file_path, e.raised,
                                   e.msg, None)
             /\ IF raised = "None"
                THEN /\ opened' = opened + 1
                     /\ self_ifc_file' =
                           [self_ifc_file EXCEPT !["PropertyExtractor"] =
                                                     opened + 1]
                ELSE /\ opened' = opened
                     /\ self_ifc_file' =
                           [self_ifc_file EXCEPT !["PropertyExtractor"] =
                                                     None]
    /\ UNCHANGED <<ifc, configVars, serviceVars, cacheVars, counterVars, clock, fs, calls,
                   last, run, concVars>>

\* open_file(ifc_file_path) of PropertyExtractor: no cache is used
PropertyExtractor_open_file(ifc_file_path) ==
    /\ opened < MaxExtractorCalls
    /\ \E raised \in ifcopenshell_open(ifc_file_path) :
          LET e == PropertyExtractor_open_file_error(raised)
          IN /\ outcome' = Outcome("open_file", ifc_file_path, e.raised,
                                   e.msg, None)
             /\ IF raised = "None"
                THEN /\ opened' = opened + 1
                     /\ self_ifc_file' =
                           [self_ifc_file EXCEPT !["PropertyExtractor"] =
                                                     opened + 1]
                ELSE UNCHANGED <<opened, self_ifc_file>>
    /\ UNCHANGED <<ifc, configVars, serviceVars, cacheVars, counterVars, clock, fs, calls,
                   last, run, concVars>>

\* what a script leaves behind: the JSON documents on standard output, the
\* exit code and, for the bulk script, metrics["warnings"]
Script(op, arg, stdout, exit, warnings) ==
    [Outcome(op, arg, "None", "", None) EXCEPT !.stdout = stdout,
                                               !.exit = exit,
                                               !.warnings = warnings]

\* {"error": f"<prefix>{str(e)}"}
ErrorDoc(prefix, detail) == [error |-> <<prefix, detail>>]

\* a script that printed stderr to standard error and exited with 1
ScriptFailed(op, arg, stderr) ==
    [Script(op, arg, <<>>, 1, <<>>) EXCEPT !.stderr = stderr]

\* the handle of a file the script's own process has just opened
ScriptHandle == None + 1

\* the order the entities have in the file
FileOrder == <<"P1", "P2", "S1", "B1", "ST1", "SP1", "W1", "F1">>

\* get_all_elements_with_properties(): the GlobalIds of by_type("IfcProduct")
get_all_elements_with_properties ==
    SelectSeq(FileOrder, LAMBDA e : EntityType[e] # "IfcProject")

\* extract_properties_batch(global_ids): an element whose extraction raises
\* RuntimeError is skipped, any other exception leaves the loop
extract_properties_batch(f, handle, global_ids) ==
    LET ids == {global_ids[i] : i \in DOMAIN global_ids}
        res == [g \in ids |-> ExtractProperties(f, handle, g)]
    IN IF \E g \in ids : res[g].raised \notin {"None", "RuntimeError"}
       THEN [raised |-> f.throws, value |-> <<>>]
       ELSE [raised |-> "None",
             value |-> [g \in {h \in ids : res[h].raised = "None"} |->
                           res[g].value]]

\* the except clauses of main in scripts/extract_properties.py
error_result(raised, msg) ==
    CASE raised = "FileNotFoundError" -> ErrorDoc("File not found: ", msg)
      [] raised = "RuntimeError" -> ErrorDoc("Runtime error: ", msg)
      [] OTHER -> ErrorDoc("Unexpected error: ", msg)

\* main() of scripts/extract_properties.py, a process of its own
extract_properties_main(input_file, element_guid, all) ==
    /\ \E raised \in ifcopenshell_open(input_file) :
          LET op == "extract_properties.py"
              arg == <<input_file, element_guid, all>>
              e == PropertyExtractor_open_file_error(raised)
              global_ids == get_all_elements_with_properties
              results == extract_properties_batch(ifc, ScriptHandle,
                                                  global_ids)
              properties == ExtractProperties(ifc, ScriptHandle, element_guid)
          IN outcome' =
                IF e.raised # "None"
                THEN Script(op, arg, <<error_result(e.raised, e.msg)>>, 1,
                            <<>>)
                ELSE IF all /\ Len(global_ids) > max_elements
                THEN ScriptFailed(op, arg,
                                  <<ErrorDoc("Too many elements", "")>>)
                ELSE IF all /\ results.raised # "None"
                THEN Script(op, arg, <<error_result(results.raised, "")>>, 1,
                            <<>>)
                ELSE IF all
                THEN Script(op, arg, <<results.value>>, 0, <<>>)
                ELSE IF properties.raised # "None"
                THEN Script(op, arg,
                            <<error_result(properties.raised,
                                           properties.msg)>>, 1, <<>>)
                ELSE Script(op, arg, <<properties.value>>, 0, <<>>)
    /\ UNCHANGED <<ifc, self_ifc_file, configVars, serviceVars, cacheVars, counterVars,
                   clock, fs, opened, calls, last, run, concVars>>

(* ---------------------------------------------------------------------- *)
(* bulk_element_extractor.py and scripts/extract_all_elements.py           *)
(* ---------------------------------------------------------------------- *)
\* the keyword parameters of PropertyExtractor.__init__
PropertyExtractor__init__parameters == {"ifc_file_path"}

\* BulkElementExtractor.__init__: what the call
\* PropertyExtractor(cache_manager=self.cache) raises
BulkElementExtractor__init__ ==
    IF "cache_manager" \in PropertyExtractor__init__parameters
    THEN "None" ELSE "TypeError"

\* ELEMENT_TYPES
ELEMENT_TYPES ==
    {"IfcWall", "IfcSlab", "IfcRoof", "IfcBeam", "IfcColumn", "IfcFooting",
     "IfcPile", "IfcRailing", "IfcDoor", "IfcWindow", "IfcFurnishingElement",
     "IfcBuildingElementProxy", "IfcCovering", "IfcCurtainWall", "IfcMember",
     "IfcPlate", "IfcStair", "IfcStairFlight", "IfcRamp", "IfcRampFlight",
     "IfcFlowTerminal", "IfcFlowSegment", "IfcFlowFitting",
     "IfcFlowController", "IfcEnergyConversionDevice", "IfcFlowMovingDevice",
     "IfcFlowStorageDevice", "IfcFlowTreatmentDevice",
     "IfcDistributionElement", "IfcSpace", "IfcBuildingStorey",
     "IfcBuilding", "IfcSite"}

\* the instances by_type returns over all the element types
Instances == SelectSeq(FileOrder, LAMBDA e : EntityType[e] \in ELEMENT_TYPES)

\* _extract_element_data(element): an exception of the property extractor
\* is caught and None returned; one raised by the element itself gets out
_extract_element_data(f, handle, element) ==
    LET props_obj == ExtractProperties(f, handle, element)
    IN IF element \in f.broken
       THEN [raised |-> "Exception", value |-> None]
       ELSE IF props_obj.raised # "None"
       THEN [raised |-> "None", value |-> None]
       ELSE [raised |-> "None",
             value |-> [global_id |-> element,
                        element_type |-> EntityType[element],
                        properties |-> props_obj.value]]

\* main() of scripts/extract_all_elements.py, a process of its own with a
\* cache of its own
extract_all_elements_main(ifc_file_path) ==
    /\ LET op == "extract_all_elements.py"
           data == [e \in Entities |->
                       _extract_element_data(ifc, ScriptHandle, e)]
           extracted == SelectSeq(Instances, LAMBDA e :
                            /\ data[e].raised = "None"
                            /\ e \notin ifc.throwing)
           failed == SelectSeq(Instances, LAMBDA e :
                            data[e].raised # "None")
       IN outcome' =
             IF BulkElementExtractor__init__ # "None"
             THEN Script(op, ifc_file_path,
                         <<ErrorDoc("Failed to extract elements: ",
                                    BulkElementExtractor__init__)>>, 1, <<>>)
             ELSE IF ~exists(ifc_file_path)
             THEN Script(op, ifc_file_path,
                         <<ErrorDoc("", "IFC file not found")>>, 1, <<>>)
             ELSE IF ~parses(ifc_file_path)
             THEN Script(op, ifc_file_path,
                         <<ErrorDoc("Failed to extract elements: ",
                                    "Failed to open IFC file")>>, 1, <<>>)
             ELSE Script(op, ifc_file_path,
                         <<[elements |->
                               [i \in DOMAIN extracted |->
                                   data[extracted[i]].value],
                            metrics |->
                               [warnings |-> failed,
                                total_elements |-> Len(extracted)]]>>,
                         0, failed)
    /\ UNCHANGED <<ifc, self_ifc_file, configVars, serviceVars, cacheVars, counterVars,
                   clock, fs, opened, calls, last, run, concVars>>

\* the merged views get_psets returns: a property set of any name next to
\* one that is a quantity set by its prefix and a type set by its suffix,
\* or next to a plain one; both with the same keys
KeySets ==
    {{}, {"type"}, {"id", "type", "IsExternal"},
     {"id", "FireRating", "Reference", "Layers"}}

\* which entity get_psets raises for, and what
Throwing ==
    {[who |-> {"W1"}, what |-> "RuntimeError"],
     [who |-> {"W1"}, what |-> "AttributeError"]}

PropertyFiles ==
    {[EmptyIfc EXCEPT
         !.psets = [n \in {n1, n2} |-> [k \in v.keys |-> RawValue[k]]],
         !.throwing = v.who,
         !.throws = v.what] :
        n1 \in PsetNames,
        n2 \in {<<"Qto_", "Type">>, <<"Pset_">>},
        v \in {[keys |-> k, who |-> {}, what |-> "RuntimeError"] :
                  k \in KeySets}
              \cup {[keys |-> {"id", "type", "IsExternal"}, who |-> t.who,
                     what |-> t.what] : t \in Throwing}}

PropertyGuids == {"W1", UnknownGuid}

InitProperties ==
    /\ InitExtractor
    /\ ifc \in PropertyFiles

NextProperties ==
    \/ \E p \in TreePaths : PropertyExtractor_open_file(p)
    \/ \E g \in PropertyGuids : extract_properties(g)
    \/ \E p \in TreePaths : \E g \in PropertyGuids : \E all \in BOOLEAN :
          extract_properties_main(p, g, all)
    \/ \E p \in TreePaths : extract_all_elements_main(p)

SpecProperties == InitProperties /\ [][NextProperties]_vars

(* ---------------------------------------------------------------------- *)
(* Properties of the property extraction                                   *)
(* ---------------------------------------------------------------------- *)
\* the names of the merged view that are quantity sets, and those of the
\* others that are type sets
QtoNames(names) == {n \in names : n[1] = "Qto_"}

TypeNames(names) ==
    {n \in names \ QtoNames(names) :
        \/ n[Len(n)] = "Type"
        \/ \E i \in 1 .. Len(n) - 1 : n[i] = "Type" /\ n[i + 1] = "."}

\* C18: extract_properties puts each property-set name of the merged view
\* into exactly one of quantities ('Qto_' prefix, tested first),
\* type_properties (ends with 'Type' or contains 'Type.') and property_sets
\* (the rest): the three are pairwise disjoint, their union is the set of
\* merged names, and the keys of each set are the source keys without 'id'
\* and 'type'.
C18_Partition ==
    Returned("extract_properties") =>
        LET r == outcome.value
            names == DOMAIN ifc.psets
            q == DOMAIN r.quantities
            t == DOMAIN r.type_properties
            p == DOMAIN r.property_sets
        IN /\ q = QtoNames(names)
           /\ t = TypeNames(names)
           /\ p = names \ (QtoNames(names) \cup TypeNames(names))
           /\ q \cap t = {} /\ q \cap p = {} /\ t \cap p = {}
           /\ q \cup t \cup p = names
           /\ \A n \in q :
                 DOMAIN r.quantities[n] = DOMAIN ifc.psets[n] \ {"id", "type"}
           /\ \A n \in t :
                 DOMAIN r.type_properties[n]
                    = DOMAIN ifc.psets[n] \ {"id", "type"}
           /\ \A n \in p :
                 DOMAIN r.property_sets[n]
                    = DOMAIN ifc.psets[n] \ {"id", "type"}

\* a set named Qto_...Type is a quantity set, next to a type set, and the
\* reserved keys are gone
C18_Witness ==
    /\ Returned("extract_properties")
    /\ <<"Qto_", "Type">> \in DOMAIN outcome.value.quantities
    /\ <<"Type", ".">> \in DOMAIN outcome.value.type_properties
    /\ DOMAIN ifc.psets[<<"Type", ".">>] = {"id", "type", "IsExternal"}
    /\ DOMAIN outcome.value.type_properties[<<"Type", ".">>] = {"IsExternal"}

\* C19: extract_properties for an identifier the loaded file does not hold
\* raises RuntimeError 'Element not found...' and returns nothing; the
\* extract_properties script then prints one JSON object {"error": ...} and
\* exits with code 1; extract_properties before a file is loaded raises
\* RuntimeError 'No IFC file loaded...'.
C19_NotFound ==
    /\ (/\ outcome.op = "extract_properties"
        /\ self_ifc_file["PropertyExtractor"] # None
        /\ outcome.arg \notin Entities)
       => /\ outcome.raised = "RuntimeError"
          /\ outcome.msg = "Element not found with GlobalId: {global_id}"
    /\ (/\ outcome.op = "extract_properties"
        /\ self_ifc_file["PropertyExtractor"] = None)
       => /\ outcome.raised = "RuntimeError"
          /\ outcome.msg = "No IFC file loaded. Call open_file() first."
    /\ (/\ outcome.op = "extract_properties.py"
        /\ parses(outcome.arg[1])
        /\ ~outcome.arg[3]
        /\ outcome.arg[2] \notin Entities)
       => /\ Len(outcome.stdout) = 1
          /\ DOMAIN outcome.stdout[1] = {"error"}
          /\ outcome.exit = 1

\* the script was run on a valid file for an identifier it does not hold
C19_Witness ==
    /\ outcome.op = "extract_properties.py"
    /\ parses(outcome.arg[1])
    /\ outcome.arg[2] = UnknownGuid
    /\ ~outcome.arg[3]
    /\ outcome.stdout =
          <<[error |-> <<"Runtime error: ",
                         "Element not found with GlobalId: {global_id}">>]>>
    /\ outcome.exit = 1

\* C20: in a bulk extraction over a file in which exactly one element
\* throws during property extraction the run does not fail, the result
\* holds all the other elements and the warnings list has exactly one
\* entry.
C20_BulkSkips ==
    (/\ outcome.op = "extract_all_elements.py"
     /\ parses(outcome.arg)
     /\ Cardinality(ifc.throwing) = 1)
    => /\ outcome.exit = 0
       /\ Len(outcome.stdout) = 1
       /\ Len(outcome.stdout[1].elements) = Len(Instances) - 1
       /\ Len(outcome.warnings) = 1

(* ---------------------------------------------------------------------- *)
(* Properties of the counters                                              *)
(* ---------------------------------------------------------------------- *)
\* this step is a call of the cache operation op
CacheCalled(op) == calls' = calls + 1 /\ last'.op = op

\* C28: every get_or_load call, a failing one included, adds exactly one to
\* hits + misses and no other step changes that sum, so the sum is the
\* number of get_or_load calls made; evictions never exceed the number of
\* successful loads; no counter ever decreases; remove and clear leave the
\* three counters as they are.
C28_CounterAccounting ==
    [][/\ CacheCalled("get_or_load") =>
              _hits' + _misses' = _hits + _misses + 1
       /\ ~CacheCalled("get_or_load") =>
              _hits' + _misses' = _hits + _misses
       /\ _hits' >= _hits /\ _misses' >= _misses /\ _evictions' >= _evictions
       /\ _evictions' <= opened'
       /\ (CacheCalled("remove") \/ CacheCalled("clear")) =>
              UNCHANGED counterVars]_vars

\* a clear after an eviction and a load that failed
C28_Witness ==
    /\ last.op = "clear"
    /\ _evictions >= 1
    /\ _misses > opened

(* ---------------------------------------------------------------------- *)
(* Termination of the tree construction                                    *)
(* ---------------------------------------------------------------------- *)
\* the number of levels of a tree
RECURSIVE Height(_)
Height(n) ==
    IF n.children = <<>> THEN 1
    ELSE 1 + (CHOOSE h \in {Height(c) : c \in Children(n)} :
                 \A c \in Children(n) : Height(c) <= h)

\* no path from n downwards meets a type that is in seen, or one type twice
RECURSIVE NoLevelTwice(_, _)
NoLevelTwice(n, seen) ==
    /\ n.ifc_type \notin seen
    /\ \A c \in Children(n) : NoLevelTwice(c, seen \cup {n.ifc_type})

\* the entities a relationship query lists
Listed(q) == {q.items[i] : i \in DOMAIN q.items}

\* the decomposition relation of the file has a cycle of two entities
Cyclic(f) ==
    \E st, sp \in Entities :
        /\ sp \in Listed(f.decomposition[st])
        /\ st \in Listed(f.decomposition[sp])

\* the building of the file is a part of the project and of the site
SharedChild(f) ==
    \E a, b \in Entities :
        /\ EntityType[a] # EntityType[b]
        /\ "B1" \in Listed(f.decomposition[a])
        /\ "B1" \in Listed(f.decomposition[b])

startswith(s, prefix) ==
    /\ Len(s) >= Len(prefix)
    /\ SubSeq(s, 1, Len(prefix)) = prefix

\* a list extended whatever the schema is
_count_entities_types_Always(schema) == types_to_count \o ifc4_specific_types

\* types_to_count once _count_entities has looked at the schema
_count_entities_types(schema) ==
    IF \/ startswith(schema, <<"IFC", "4">>)
       \/ startswith(schema, <<"IFC", "5">>)
    THEN types_to_count \o ifc4_specific_types
    ELSE types_to_count

\* _count_entities(ifc_file): by_type is called for every name of the
\* list; a name it raises RuntimeError for is passed over, a name without
\* instances gets no key. queried is not returned: it records the calls.
_count_entities(f) ==
    LET queried == _count_entities_types(f.schema)
        counted == {t \in Range(queried) :
                       t \notin f.unknown /\ f.instances[t] > 0}
    IN [queried |-> queried,
        counts |-> [t \in counted |-> f.instances[t]]]

\* what parse_file raises for what the cache raised
parse_file_error(raised) ==
    CASE raised = "FileNotFoundError" ->
             [raised |-> "FileNotFoundError", msg |-> "IFC file not found"]
      [] raised = "RuntimeError" ->
             [raised |-> "RuntimeError", msg |-> "Failed to open IFC file"]
      [] OTHER -> [raised |-> "None", msg |-> ""]

\* what parse_file leaves for a file: the exception, or the IfcMetadata
\* (names and authoring information, which the file's header gives, are
\* not modelled)
ParseFile(op, file_path, raised, f) ==
    IF raised # "None"
    THEN Outcome(op, file_path, parse_file_error(raised).raised,
                 parse_file_error(raised).msg, None)
    ELSE IF f.projects = <<>>
    THEN Outcome(op, file_path, "RuntimeError",
                 "No IfcProject found in file", None)
    ELSE Outcome(op, file_path, "None", "",
                 [model_id |-> project(f.projects),
                  schema |-> f.schema,
                  entity_counts |-> _count_entities(f).counts,
                  queried |-> _count_entities(f).queried])

\* parse_file(file_path) of IfcParser: the handle is a local variable
parse_file(file_path) ==
    /\ calls < MaxExtractorCalls
    /\ get_or_load(file_path)
    /\ outcome' = ParseFile("parse_file", file_path, last'.raised, ifc)
    /\ UNCHANGED <<ifc, self_ifc_file>>

\* the files the components read: four schemas, some walls, spaces, pipe
\* fittings (which only a schema from IFC4 on has) and flow terminals, a
\* schema that may lack IfcFurniture, and files with no project
ReaderFiles ==
    {[EmptyIfc EXCEPT
         !.schema = schema,
         !.projects = ps,
         !.instances = [t \in Tags |->
                           CASE t = "IfcWall" -> walls
                             [] t = "IfcSpace" -> spaces
                             [] t = "IfcPipeFitting" ->
                                   IF schema[2] = "2X3" THEN 0 ELSE pipes
                             [] t = "IfcFlowTerminal" -> terminals
                             [] OTHER -> 0],
         !.unknown = (IF schema[2] = "2X3" THEN Range(ifc4_specific_types)
                                          ELSE {})
                     \cup other] :
        schema \in {<<"IFC", "2X3">>, <<"IFC", "4">>, <<"IFC", "4", "X3">>,
                    <<"IFC", "5">>},
        ps \in {<<>>, <<"P1">>},
        walls \in {0, 2},
        spaces \in {0, 1},
        pipes \in {0, 3},
        terminals \in {0, 1},
        other \in {{}, {"IfcFurniture"}}}

InitReaders ==
    /\ InitExtractor
    /\ ifc \in ReaderFiles

\* the components that read file content, used one after the other by one
\* process: the metadata parser, the spatial tree extractor and the
\* property extractor
NextReaders ==
    \/ \E p \in TreePaths : parse_file(p)
    \/ \E p \in TreePaths : open_file(p)
    \/ \E p \in TreePaths : PropertyExtractor_open_file(p)
    \/ \E g \in PropertyGuids : extract_properties(g)

SpecReaders == InitReaders /\ [][NextReaders]_vars

(* ---------------------------------------------------------------------- *)
(* Properties of the metadata parser                                       *)
(* ---------------------------------------------------------------------- *)
\* the allow-list, and its part that only exists from IFC4 on
AllowList ==
    {"IfcWall", "IfcWallStandardCase", "IfcDoor", "IfcWindow", "IfcSlab",
     "IfcBeam", "IfcColumn", "IfcStair", "IfcRoof", "IfcRailing", "IfcSpace",
     "IfcBuildingStorey", "IfcBuilding", "IfcSite", "IfcFurnishingElement",
     "IfcFurniture", "IfcPipeFitting", "IfcPipeSegment", "IfcDuctFitting",
     "IfcDuctSegment"}

Ifc4Only ==
    {"IfcPipeFitting", "IfcPipeSegment", "IfcDuctFitting", "IfcDuctSegment"}

PredatesIfc4(schema) == schema[2] \in {"2X3"}

\* C24: the entity_counts of a returned IfcMetadata have exactly the
\* allow-list tags with at least one instance as keys, each with its number
\* of instances; for a schema older than IFC4 the four IFC4-only tags are
\* not asked for and are no keys; a tag the schema does not know is passed
\* over and the call still returns.
C24_EntityCounts ==
    /\ Returned("parse_file") =>
          LET m == outcome.value
          IN /\ DOMAIN m.entity_counts =
                   {t \in AllowList : ifc.instances[t] >= 1}
             /\ \A t \in DOMAIN m.entity_counts :
                   m.entity_counts[t] = ifc.instances[t]
             /\ PredatesIfc4(m.schema) =>
                   /\ Range(m.queried) \cap Ifc4Only = {}
                   /\ DOMAIN m.entity_counts \cap Ifc4Only = {}
    /\ (Opened("parse_file") /\ ifc.projects # <<>>) =>
          outcome.raised = "None"

\* an older file with walls, whose schema lacks IfcFurniture
C24_Witness ==
    /\ Returned("parse_file")
    /\ PredatesIfc4(ifc.schema)
    /\ "IfcFurniture" \in ifc.unknown
    /\ "IfcWall" \in DOMAIN outcome.value.entity_counts

(* ---------------------------------------------------------------------- *)
(* Properties of the components as clients of the cache                    *)
(* ---------------------------------------------------------------------- *)
\* this step is a call by which a component opens a path
ComponentOpens == outcome'.op \in {"parse_file", "open_file"}

\* C21: every component that reads file content gets its handle from
\* get_or_load: each open of a path by a component adds one to hits +
\* misses, and a file is parsed only inside a get_or_load call of the
\* cache.
C21_ThroughCache ==
    [][/\ ComponentOpens => _hits' + _misses' = _hits + _misses + 1
       /\ opened' # opened => CacheCalled("get_or_load")]_vars

\* the last call was an open_file that raised
OpenFileFailed == outcome.op = "open_file" /\ outcome.raised # "None"

\* C30: an open_file that raises leaves the handle of every extractor as
\* it was; a handle is replaced only in a step whose open succeeded; and
\* an extract_properties that follows a failed open_file of an extractor
\* that held a handle is answered from that handle, not with 'No IFC file
\* loaded'.
C30_HandleKept ==
    [][/\ (ComponentOpens /\ outcome'.raised # "None") =>
              self_ifc_file' = self_ifc_file
       /\ self_ifc_file' # self_ifc_file =>
              /\ ComponentOpens
              /\ outcome'.raised = "None"
              /\ opened' = opened + 1 \/ CacheCalled("get_or_load")
       /\ (/\ OpenFileFailed
           /\ self_ifc_file["PropertyExtractor"] # None
           /\ outcome'.op = "extract_properties") =>
              LET answer == ExtractProperties(
                                ifc, self_ifc_file["PropertyExtractor"],
                                outcome'.arg)
              IN /\ outcome'.msg #
                       "No IFC file loaded. Call open_file() first."
                 /\ outcome'.raised = answer.raised
                 /\ outcome'.msg = answer.msg
                 /\ answer.raised = "None" =>
                       outcome'.value = answer.value]_vars

\* the property extractor holds a handle after an open_file that raised
C30_Witness ==
    /\ OpenFileFailed
    /\ outcome.arg = BadPath
    /\ self_ifc_file["PropertyExtractor"] # None
    /\ self_ifc_file["SpatialTreeExtractor"] # None

(* ---------------------------------------------------------------------- *)
(* cache_manager.py: the global cache instance                             *)
(* ---------------------------------------------------------------------- *)
\* IfcCacheManager(max_size, ttl_hours): the state of a new instance
NewInstance(size, ttl_hours) ==
    /\ max_size' = size
    /\ ttl_seconds' = ttl_hours * SecondsPerHour
    /\ _cache' = <<>>
    /\ _access_times' = EmptyDict
    /\ _file_sizes' = EmptyDict
    /\ _hits' = 0
    /\ _misses' = 0
    /\ _evictions' = 0

\* a get_global_cache that builds an instance at every call
get_global_cache_Fresh(size, ttl_hours) ==
    /\ _global_cache' = _global_cache + 1
    /\ NewInstance(size, ttl_hours)

\* get_global_cache(max_size, ttl_hours); what it returns is _global_cache'
get_global_cache(size, ttl_hours) ==
    IF _global_cache = None
    THEN /\ _global_cache' = None + 1
         /\ NewInstance(size, ttl_hours)
    ELSE UNCHANGED <<_global_cache, configVars, cacheVars, counterVars>>

\* a call of get_global_cache by the program itself
get_global_cache_call(size, ttl_hours) ==
    /\ get_global_cache(size, ttl_hours)
    /\ outcome' = Outcome("get_global_cache", <<size, ttl_hours>>, "None",
                          "", _global_cache')
    /\ UNCHANGED <<ifc, self_ifc_file, self_cache, subprocess, disk, clock,
                   fs, opened, calls, last, run, concVars>>

\* a cache the caller has built and hands to a constructor
PrivateCache == None - 1

\* __init__(cache_manager) of IfcParser, SpatialTreeExtractor and
\* BulkElementExtractor: self.cache = cache_manager or get_global_cache();
\* the constructor of BulkElementExtractor raises after that statement
Component__init__(c, cache_manager) ==
    /\ self_cache[c] = None
    /\ IF cache_manager # None
       THEN /\ self_cache' = [self_cache EXCEPT ![c] = cache_manager]
            /\ UNCHANGED <<_global_cache, configVars, cacheVars, counterVars>>
       ELSE /\ get_global_cache(DefaultMaxSize, DefaultTtlHours)
            /\ self_cache' = [self_cache EXCEPT ![c] = _global_cache']
    /\ outcome' = Outcome("__init__", <<c, cache_manager>>,
                          IF c = "BulkElementExtractor"
                          THEN BulkElementExtractor__init__ ELSE "None",
                          "", None)
    /\ UNCHANGED <<ifc, self_ifc_file, subprocess, disk, clock, fs, opened,
                   calls, last, run, concVars>>

\* the sizes and lifetimes get_global_cache is called with
CacheSizes == {MaxCap, DefaultMaxSize}
CacheTtlHours == {MaxTtlHours, DefaultTtlHours}

\* a process that has not touched the cache module yet
InitSingleton ==
    /\ max_size = None
    /\ ttl_seconds = None
    /\ _cache = <<>>
    /\ _access_times = EmptyDict
    /\ _file_sizes = EmptyDict
    /\ _hits = 0
    /\ _misses = 0
    /\ _evictions = 0
    /\ clock = 0
    /\ fs = [p \in Paths |-> IF p = BadPath THEN "corrupt"
                             ELSE IF p = MissingPath THEN "missing"
                             ELSE "ok"]
    /\ opened = 0
    /\ calls = 0
    /\ last = Event("__init__", None, "None", None, <<>>)
    /\ run = <<>>
    /\ pc = [t \in Threads |-> "idle"]
    /\ loc = [t \in Threads |-> NoLocals]
    /\ overlapped = FALSE
    /\ self_ifc_file = NoHandles
    /\ outcome = NoOutcome
    /\ _global_cache = None
    /\ self_cache = NoCaches
    /\ subprocess = NoSubprocess
    /\ disk = {}
    /\ ifc \in {f \in ReaderFiles :
                   /\ f.schema = <<"IFC", "4">>
                   /\ f.unknown = {}
                   /\ f.instances["IfcWall"] = 2
                   /\ f.instances["IfcSpace"] = 0
                   /\ f.instances["IfcFlowTerminal"] = 0}

\* the components work on the cache they were given; the model keeps the
\* state of the global instance, so a component acts once it holds it
NextSingleton ==
    \/ \E size \in CacheSizes : \E ttl_hours \in CacheTtlHours :
          get_global_cache_call(size, ttl_hours)
    \/ \E c \in Components : \E cache_manager \in {None, PrivateCache} :
          Component__init__(c, cache_manager)
    \/ \E p \in TreePaths :
          /\ _global_cache # None
          /\ self_cache["IfcParser"] = _global_cache
          /\ parse_file(p)
    \/ \E p \in TreePaths :
          /\ _global_cache # None
          /\ self_cache["SpatialTreeExtractor"] = _global_cache
          /\ open_file(p)

SpecSingleton == InitSingleton /\ [][NextSingleton]_vars

(* ---------------------------------------------------------------------- *)
(* Properties of the global cache instance                                 *)
(* ---------------------------------------------------------------------- *)
\* C27: there is no global instance until get_global_cache is called for
\* the first time, by the program or by a constructor that was given no
\* cache; from then on every call returns that instance and its max_size
\* and TTL stay those of the first call; every component constructed
\* without a cache holds it, so that a path one of them has loaded is a hit
\* with the same handle for the other.
C27_Singleton ==
    [][/\ _global_cache' # _global_cache =>
              /\ _global_cache = None
              /\ outcome'.op \in {"get_global_cache", "__init__"}
              /\ outcome'.op = "__init__" => outcome'.arg[2] = None
       /\ _global_cache # None => UNCHANGED <<_global_cache, configVars>>
       /\ outcome'.op = "get_global_cache" =>
              /\ outcome'.value = _global_cache'
              /\ _global_cache = None =>
                    /\ max_size' = outcome'.arg[1]
                    /\ ttl_seconds' = outcome'.arg[2] * SecondsPerHour
       /\ \A c \in Components :
              self_cache'[c] \notin {None, PrivateCache} =>
                  self_cache'[c] = _global_cache'
       /\ (ComponentOpens /\ OD_has(_cache, outcome'.arg)) =>
              /\ _hits' = _hits + 1
              /\ last'.ret = OD_get(_cache, outcome'.arg)]_vars

\* the tree extractor got the handle the parser had loaded, and a later
\* get_global_cache call asked for another size and lifetime
C27_Witness ==
    /\ outcome.op = "get_global_cache"
    /\ outcome.arg[1] # max_size
    /\ outcome.arg[2] * SecondsPerHour # ttl_seconds
    /\ self_cache["IfcParser"] = _global_cache
    /\ self_cache["SpatialTreeExtractor"] = _global_cache
    /\ self_cache["BulkElementExtractor"] = PrivateCache
    /\ _hits = 1
    /\ _misses = 1

(* ---------------------------------------------------------------------- *)
(* gltf_exporter.py: GltfExporter                                          *)
(* ---------------------------------------------------------------------- *)
\* an output path as it is typed: the directory part, and the file name
\* split before each of its dots (a leading dot belongs to the first piece)
OutputPath(dir, name) == [dir |-> dir, name |-> name]

OutputPaths ==
    {OutputPath("", name) :
        name \in {<<"model">>, <<"model", ".glb">>, <<"model", ".GLB">>,
                  <<"model", ".obj">>, <<".glb">>}}
    \cup {OutputPath("./out//", <<"model", ".obj">>),
          OutputPath("./out//", <<"model", ".glb">>)}

\* str(Path(p)) of a directory part: './' and doubled slashes go
normdir(dir) == IF dir = "./out//" THEN "out/" ELSE dir

\* the file a path names
realpath(p) == [p EXCEPT !.dir = normdir(p.dir)]

\* os.path.exists(output_path)
exists_output(p) == realpath(p) \in disk

\* str.lower() of a piece of a name
lower(piece) ==
    CASE piece = ".GLB" -> ".glb"
      [] piece = ".IFC" -> ".ifc"
      [] OTHER -> piece

\* Path(p).suffix
suffix(p) == IF Len(p.name) > 1 THEN p.name[Len(p.name)] ELSE ""

\* str(Path(p).with_suffix(ext))
with_suffix(p, ext) ==
    [dir |-> normdir(p.dir),
     name |-> IF Len(p.name) > 1
              THEN SubSeq(p.name, 1, Len(p.name) - 1) \o <<ext>>
              ELSE p.name \o <<ext>>]

\* f".{format}"
expected_ext(format) == IF format = "glb" THEN ".glb" ELSE ".gltf"

\* a path handed on as it came
_ensure_extension_Keep(output_path, format) == output_path

\* _ensure_extension(output_path, format)
_ensure_extension(output_path, format) ==
    IF lower(suffix(output_path)) # expected_ext(format)
    THEN with_suffix(output_path, expected_ext(format))
    ELSE output_path

\* the fields of GltfExportOptions that are set, and GltfExportOptions()
DefaultOptions == {"use_element_guids", "use_material_names"}

\* the flags in the order _build_command appends them
Flags ==
    <<[option |-> "use_element_guids", flag |-> "--use-element-guids"],
      [option |-> "use_element_names", flag |-> "--use-element-names"],
      [option |-> "use_material_names", flag |-> "--use-material-names"],
      [option |-> "center_model", flag |-> "--center-model"],
      [option |-> "no_normals", flag |-> "--no-normals"],
      [option |-> "y_up", flag |-> "--y-up"]>>

\* _build_command(ifc_file_path, output_path, options)
_build_command(ifc_file_path, output_path, options) ==
    LET chosen == SelectSeq(Flags, LAMBDA f : f.option \in options)
    IN <<"IfcConvert">> \o [i \in DOMAIN chosen |-> chosen[i].flag]
          \o <<ifc_file_path, output_path>>

\* a or b, for strings
either(a, b) == IF a # "" THEN a ELSE b

\* a success test that trusts the exit code
export_succeeded_ExitCode(returncode, output_exists) == returncode = 0

\* result.returncode == 0 and os.path.exists(output_path)
export_succeeded(returncode, output_exists) ==
    returncode = 0 /\ output_exists

\* the GltfExportResult export builds once subprocess.run has returned;
\* every file IfcConvert writes has the same size in the model
ExportResult(returncode, output_exists, stdout, stderr, output_path) ==
    IF export_succeeded(returncode, output_exists)
    THEN [success |-> TRUE, output_path |-> output_path,
          file_size |-> BytesPerMB, error_message |-> None,
          stdout |-> stdout, stderr |-> stderr]
    ELSE [success |-> FALSE, output_path |-> None, file_size |-> None,
          error_message |->
              either(stderr,
                     either(stdout,
                            "IfcConvert exited with code {returncode}")),
          stdout |-> stdout, stderr |-> stderr]

\* the GltfExportResult for a converter that is not installed
BinaryNotFound ==
    [success |-> FALSE, output_path |-> None, file_size |-> None,
     error_message |-> "IfcConvert binary not found at: {ifcconvert_path}",
     stdout |-> None, stderr |-> None]

\* the arguments of one export call, with whether the converter is installed
ExportCalls ==
    {[ifc_file_path |-> i, output_path |-> o, format |-> f, options |-> opt,
      installed |-> b] :
        i \in {MissingPath, MissingPath + 1},
        o \in OutputPaths,
        f \in {"glb", "gltf"},
        opt \in {DefaultOptions},
        b \in BOOLEAN}
    \cup {[ifc_file_path |-> MissingPath + 1,
           output_path |-> OutputPath("", <<"model">>),
           format |-> "glb", options |-> {"center_model", "y_up"},
           installed |-> TRUE]}

\* export(ifc_file_path, output_path, format, options) up to the call of
\* subprocess.run: it raises, returns the result for a missing converter,
\* or starts IfcConvert and waits
export(arg) ==
    /\ subprocess.state \notin {"running", "exited", "hung"}
    /\ IF ~exists(arg.ifc_file_path)
       THEN /\ outcome' = Outcome("export", arg, "FileNotFoundError",
                                  "IFC file not found", None)
            /\ subprocess' = NoSubprocess
       ELSE LET output_path == _ensure_extension(arg.output_path, arg.format)
                command == _build_command(arg.ifc_file_path, output_path,
                                          arg.options)
            IN IF ~arg.installed
               THEN /\ outcome' = Outcome("export", arg, "None", "",
                                          BinaryNotFound)
                    /\ subprocess' = NoSubprocess
               ELSE /\ outcome' = Outcome("subprocess.run", arg, "None", "",
                                          None)
                    /\ subprocess' = [NoSubprocess EXCEPT
                                         !.state = "running",
                                         !.command = command]
    /\ UNCHANGED <<ifc, self_ifc_file, _global_cache, self_cache, disk,
                   configVars, cacheVars, counterVars, clock, fs, opened,
                   calls, last, run, concVars>>

\* IfcConvert ends: with an exit code, with or without having written the
\* output file it was given, with or without text on its streams
IfcConvert_exits(returncode, writes, stdout, stderr) ==
    /\ subprocess.state = "running"
    /\ subprocess' = [subprocess EXCEPT !.state = "exited",
                                        !.returncode = returncode,
                                        !.stdout = stdout,
                                        !.stderr = stderr]
    /\ disk' = IF writes
               THEN disk \cup
                       {realpath(subprocess.command[Len(subprocess.command)])}
               ELSE disk
    /\ UNCHANGED <<extractorVars, _global_cache, self_cache, configVars,
                   cacheVars, counterVars, clock, fs, opened, calls, last,
                   run, concVars>>

\* IfcConvert stops making progress and never ends
IfcConvert_hangs ==
    /\ subprocess.state = "running"
    /\ subprocess' = [subprocess EXCEPT !.state = "hung"]
    /\ UNCHANGED <<extractorVars, _global_cache, self_cache, disk,
                   configVars, cacheVars, counterVars, clock, fs, opened,
                   calls, last, run, concVars>>

\* export from the return of subprocess.run on
export_returns ==
    /\ subprocess.state = "exited"
    /\ LET output_path == subprocess.command[Len(subprocess.command)]
       IN outcome' = Outcome("export", outcome.arg, "None", "",
                             ExportResult(subprocess.returncode,
                                          exists_output(output_path),
                                          subprocess.stdout,
                                          subprocess.stderr, output_path))
    /\ subprocess' = [subprocess EXCEPT !.state = "reaped"]
    /\ UNCHANGED <<ifc, self_ifc_file, _global_cache, self_cache, disk,
                   configVars, cacheVars, counterVars, clock, fs, opened,
                   calls, last, run, concVars>>

\* what IfcConvert leaves on a stream
StreamTexts == {"", "text"}

InitExport ==
    /\ InitExtractor
    /\ ifc = EmptyIfc

\* IfcConvert ends in one of the ways it can
IfcConvert_ends ==
    \E returncode \in {0, 1} : \E writes \in BOOLEAN :
       \E stdout \in StreamTexts : \E stderr \in StreamTexts :
          IfcConvert_exits(returncode, writes, stdout, stderr)

NextExport ==
    \/ \E arg \in ExportCalls : export(arg)
    \/ IfcConvert_ends
    \/ IfcConvert_hangs
    \/ export_returns

SpecExport == InitExport /\ [][NextExport]_vars

(* ---------------------------------------------------------------------- *)
(* Properties of the exporter                                              *)
(* ---------------------------------------------------------------------- *)
\* export has returned a result, after IfcConvert has run
Exported == outcome.op = "export" /\ subprocess.state = "reaped"

\* the output path IfcConvert was given
CommandOutput == subprocess.command[Len(subprocess.command)]

\* C22: export reports success exactly when IfcConvert exited with 0 and
\* the output path it was given exists afterwards; a result without
\* success carries a non-empty error message, so exit code 0 without an
\* output file is a failure with a message; for a missing input file
\* export raises FileNotFoundError and no subprocess has been started; a
\* missing converter gives a failed result and no exception.
C22_SuccessCriterion ==
    /\ Exported =>
          /\ outcome.raised = "None"
          /\ outcome.value.success <=>
                (subprocess.returncode = 0 /\ realpath(CommandOutput) \in disk)
          /\ ~outcome.value.success => outcome.value.error_message # ""
    /\ (outcome.op \in {"export", "subprocess.run"}
           /\ ~exists(outcome.arg.ifc_file_path)) =>
          /\ outcome.op = "export"
          /\ outcome.raised = "FileNotFoundError"
          /\ subprocess = NoSubprocess
    /\ (outcome.op \in {"export", "subprocess.run"}
           /\ exists(outcome.arg.ifc_file_path)
           /\ ~outcome.arg.installed) =>
          /\ outcome.op = "export"
          /\ outcome.raised = "None"
          /\ ~outcome.value.success
          /\ outcome.value.error_message # ""
          /\ subprocess = NoSubprocess

\* IfcConvert exited with 0 and silently, the output file is not there and
\* the result is a failure
C22_Witness ==
    /\ Exported
    /\ subprocess.returncode = 0
    /\ subprocess.stdout = "" /\ subprocess.stderr = ""
    /\ realpath(CommandOutput) \notin disk
    /\ ~outcome.value.success

\* C25: every export call returns: while export waits for IfcConvert,
\* either IfcConvert can still end or export can go on by itself, as it
\* would when a timeout kills a converter that does not end.
C25_ExportReturns ==
    outcome.op = "subprocess.run" =>
        ENABLED (IfcConvert_ends \/ export_returns)

\* C26: the path given to IfcConvert and tested for existence is the
\* normalised one: its last piece is the extension of the format, whatever
\* the case; a path that had that extension is passed as it came; one with
\* another extension has it replaced and one without gets it added;
\* normalising it again changes nothing.
C26_Extension ==
    subprocess.state \in {"running", "exited", "hung", "reaped"} =>
        LET given == outcome.arg.output_path
            ext == IF outcome.arg.format = "glb" THEN ".glb" ELSE ".gltf"
            n == CommandOutput
            last_piece == given.name[Len(given.name)]
            had_it == Len(given.name) > 1 /\ lower(last_piece) = ext
        IN /\ Len(n.name) > 1
           /\ lower(n.name[Len(n.name)]) = ext
           /\ had_it => n = given
           /\ (~had_it /\ Len(given.name) > 1) =>
                 n.name = SubSeq(given.name, 1, Len(given.name) - 1)
                             \o <<ext>>
           /\ Len(given.name) = 1 => n.name = given.name \o <<ext>>
           /\ realpath(n) = [realpath(given) EXCEPT !.name = n.name]
           /\ _ensure_extension(n, outcome.arg.format) = n
           /\ (Exported /\ outcome.value.success) =>
                 /\ outcome.value.output_path = n
                 /\ realpath(n) \in disk

\* a path with another extension, in a directory typed with './', was
\* rewritten, given to IfcConvert and found on disk
C26_Witness ==
    /\ Exported
    /\ outcome.value.success
    /\ outcome.arg.output_path = OutputPath("./out//", <<"model", ".obj">>)
    /\ CommandOutput = OutputPath("out/", <<"model", ".glb">>)

(* ---------------------------------------------------------------------- *)
(* scripts/parse_ifc.py, scripts/extract_spatial_tree.py and               *)
(* scripts/export_gltf.py                                                  *)
(* ---------------------------------------------------------------------- *)
\* what get_or_load raises in a process that has just started, whose
\* global cache is new and empty
ScriptOpen(file_path) ==
    IF ~exists(file_path) THEN "FileNotFoundError"
    ELSE IF ~parses(file_path) THEN "RuntimeError"
    ELSE "None"

\* what argparse prints when a positional argument is missing; it then
\* exits with 2
UsageText == "usage: ... error: the following arguments are required"

ArgparseExits(op) ==
    [Script(op, <<>>, <<>>, None + 2, <<>>) EXCEPT !.stderr = <<UsageText>>]

\* main() of scripts/parse_ifc.py; argv is sys.argv[1:]
parse_ifc_main(argv) ==
    /\ LET op == "parse_ifc.py"
           file_path == argv[1]
           metadata == ParseFile("parse_file", file_path,
                                 ScriptOpen(file_path), ifc)
       IN outcome' =
             IF Len(argv) < 1
             THEN Script(op, argv,
                         <<ErrorDoc("Usage: ", "parse_ifc.py <input.ifc>")>>,
                         1, <<>>)
             ELSE IF metadata.raised # "None"
             THEN Script(op, argv,
                         <<error_result(metadata.raised, metadata.msg)>>, 1,
                         <<>>)
             ELSE Script(op, argv,
                         <<[model_id |-> metadata.value.model_id,
                            schema |-> metadata.value.schema,
                            entity_counts |-> metadata.value.entity_counts]>>,
                         0, <<>>)
    /\ UNCHANGED <<ifc, self_ifc_file, configVars, serviceVars, cacheVars,
                   counterVars, clock, fs, opened, calls, last, run,
                   concVars>>

\* SpatialNode.to_dict()
RECURSIVE to_dict(_)
to_dict(n) ==
    [global_id |-> n.global_id, ifc_type |-> n.ifc_type,
     children |-> [i \in DOMAIN n.children |-> to_dict(n.children[i])]]

\* what a call of the tree extractor leaves: an exception or a value
Raised(raised, msg) == [raised |-> raised, msg |-> msg, value |-> None]
Value(v) == [raised |-> "None", msg |-> "", value |-> v]

\* extract_tree(file_path).to_dict(), once the file is open
TreeDict(f) ==
    IF f.projects = <<>>
    THEN Raised("RuntimeError", "No IfcProject found in IFC file")
    ELSE LET tree == _build_node(f, project(f.projects), "root")
         IN IF tree.raised THEN Raised("Exception", "")
            ELSE Value(to_dict(tree.value))

\* get_spatial_elements_flat(file_path), once the file is open: the
\* elements of the spatial types, a type after the other
FlatElements(f) ==
    LET spatial == SelectSeq(FileOrder, LAMBDA e :
                       EntityType[e] \in SPATIAL_ELEMENT_TYPES)
    IN IF \E i \in DOMAIN spatial : spatial[i] \in f.broken
       THEN Raised("Exception", "")
       ELSE Value(storey_records(spatial))

\* get_elements_in_storey(file_path, storey_guid), once the file is open
StoreyElements(f, storey_guid) ==
    IF storey_guid \notin Entities
    THEN Raised("ValueError",
                "Building storey with GUID {storey_guid} not found")
    ELSE IF storey_guid \in f.broken THEN Raised("Exception", "")
    ELSE IF EntityType[storey_guid] # "IfcBuildingStorey"
    THEN Raised("ValueError",
                "Element {storey_guid} is not an IfcBuildingStorey")
    ELSE LET contained_elements == f.decomposition[storey_guid]
         IN IF \/ contained_elements.raises
               \/ \E i \in DOMAIN contained_elements.items :
                     contained_elements.items[i] \in f.broken
            THEN Raised("Exception", "")
            ELSE Value(storey_records(contained_elements.items))

\* main() of scripts/extract_spatial_tree.py: args is what parse_args
\* returns, or has no input_file when argparse stops the script; storey is
\* "" when the option is not given; every error goes to standard error
extract_spatial_tree_main(args) ==
    /\ LET op == "extract_spatial_tree.py"
           opened_as == open_file_error(ScriptOpen(args.input_file))
           call == IF opened_as.raised # "None"
                   THEN Raised(opened_as.raised, opened_as.msg)
                   ELSE IF args.storey # ""
                   THEN StoreyElements(ifc, args.storey)
                   ELSE IF args.flat THEN FlatElements(ifc)
                   ELSE TreeDict(ifc)
           result == IF args.storey # ""
                     THEN [storey_guid |-> args.storey,
                           element_count |-> Len(call.value),
                           elements |-> call.value]
                     ELSE IF args.flat
                     THEN [element_count |-> Len(call.value),
                           elements |-> call.value]
                     ELSE call.value
       IN outcome' =
             IF ~args.given THEN ArgparseExits(op)
             ELSE IF ~exists(args.input_file)
             THEN ScriptFailed(op, args,
                               <<ErrorDoc("File not found: ",
                                          args.input_file)>>)
             ELSE IF lower(args.suffix) # ".ifc"
             THEN ScriptFailed(op, args,
                               <<ErrorDoc("Not an IFC file: ",
                                          args.input_file)>>)
             ELSE IF call.raised = "FileNotFoundError"
             THEN ScriptFailed(op, args, <<ErrorDoc("", call.msg)>>)
             ELSE IF call.raised # "None"
             THEN ScriptFailed(op, args,
                               <<ErrorDoc("Failed to extract spatial tree: ",
                                          call.msg)>>)
             ELSE Script(op, args, <<result>>, 0, <<>>)
    /\ UNCHANGED <<ifc, self_ifc_file, configVars, serviceVars, cacheVars,
                   counterVars, clock, fs, opened, calls, last, run,
                   concVars>>

\* main() of scripts/export_gltf.py for an IfcConvert that ends with
\* returncode, having written its output or not; args.given is false when
\* argparse stops the script
export_gltf_main(args, returncode, writes, stdout, stderr) ==
    /\ LET op == "export_gltf.py"
           output_path == _ensure_extension(args.output_path, args.format)
           result == IF ~args.installed THEN BinaryNotFound
                     ELSE ExportResult(returncode, writes, stdout, stderr,
                                       output_path)
           result_dict == [success |-> result.success,
                           output_path |-> result.output_path,
                           file_size |-> result.file_size,
                           error_message |-> result.error_message,
                           metrics |-> [statistics |->
                               [gltf_file_size_bytes |->
                                   IF result.success THEN result.file_size
                                   ELSE None]]]
       IN outcome' =
             IF ~args.given THEN ArgparseExits(op)
             ELSE IF ~exists(args.ifc_file_path)
             THEN Script(op, args,
                         <<[success |-> FALSE,
                            error_message |->
                               <<"File not found: ", "IFC file not found">>]>>,
                         1, <<>>)
             ELSE Script(op, args, <<result_dict>>,
                         IF result.success THEN 0 ELSE 1, <<>>)
    /\ UNCHANGED <<ifc, self_ifc_file, configVars, serviceVars, cacheVars,
                   counterVars, clock, fs, opened, calls, last, run,
                   concVars>>

\* the command lines of extract_spatial_tree.py
SpatialArgs ==
    {[given |-> g, input_file |-> p, suffix |-> sfx, flat |-> fl,
      storey |-> st] :
        g \in BOOLEAN, p \in TreePaths, sfx \in {".ifc", ".IFC", ".txt"},
        fl \in BOOLEAN, st \in {"", "ST1", UnknownGuid}}

\* the command lines of export_gltf.py
ExportArgs ==
    {[given |-> g, ifc_file_path |-> c.ifc_file_path,
      output_path |-> c.output_path, format |-> c.format,
      options |-> c.options, installed |-> c.installed] :
        g \in BOOLEAN,
        c \in {x \in ExportCalls : x.output_path.dir = ""}}

\* the files the scripts are run on: trees without failing queries, with
\* and without a project, with a malformed space or none
ScriptFiles ==
    {f \in TreeFiles :
        /\ f.projects # <<"P2", "P1">>
        /\ f.decomposition["P1"] = Returns(<<"S1">>)
        /\ f.decomposition["S1"] = Returns(<<"B1">>)
        /\ f.decomposition["B1"] = Returns(<<"ST1">>)
        /\ f.decomposition["ST1"] \in {Raises, Returns(<<"SP1", "W1">>)}
        /\ f.contained["ST1"] = Returns(<<"W1">>)
        /\ f.contained["SP1"] = Returns(<<>>)
        /\ f.broken \in {{}, {"SP1"}}}

InitScripts ==
    /\ InitExtractor
    /\ ifc \in ScriptFiles

\* each script is a process of its own
NextScripts ==
    \/ \E argv \in {<<>>} \cup {<<p>> : p \in TreePaths} :
          parse_ifc_main(argv)
    \/ \E args \in SpatialArgs : extract_spatial_tree_main(args)
    \/ \E p \in TreePaths : \E g \in PropertyGuids : \E all \in BOOLEAN :
          extract_properties_main(p, g, all)
    \/ \E p \in TreePaths : extract_all_elements_main(p)
    \/ \E args \in ExportArgs : \E returncode \in {0, 1} :
          \E writes \in BOOLEAN : \E stdout, stderr \in StreamTexts :
             export_gltf_main(args, returncode, writes, stdout, stderr)

SpecScripts == InitScripts /\ [][NextScripts]_vars

(* ---------------------------------------------------------------------- *)
(* Properties of the scripts                                               *)
(* ---------------------------------------------------------------------- *)
ScriptNames ==
    {"parse_ifc.py", "extract_spatial_tree.py", "extract_properties.py",
     "extract_all_elements.py", "export_gltf.py"}

\* a JSON document of the shape {"error": <message>}
IsErrorDoc(doc) == DOMAIN doc = {"error"}

\* C23: every run of a script ends in one of two ways: with exit code 0
\* and exactly one JSON document on standard output, which is no error
\* document; or with exit code 1 and one document {"error": <message>}.
C23_OutcomeContract ==
    outcome.op \in ScriptNames =>
        \/ /\ outcome.exit = 0
           /\ Len(outcome.stdout) = 1
           /\ outcome.stderr = <<>>
           /\ ~IsErrorDoc(outcome.stdout[1])
        \/ /\ outcome.exit = 1
           /\ Len(outcome.stdout \o outcome.stderr) = 1
           /\ IsErrorDoc((outcome.stdout \o outcome.stderr)[1])
====
